---- MODULE Spec2Model ----
(***************************************************************************)
(* The pending-transaction pool (system/mempool/base.go): the Mempool      *)
(* orchestrator, its background goroutines and the txCache it owns.        *)
(*                                                                         *)
(* SpecClose : SetQueueClient, the background goroutines and Close().      *)
(* SpecPool  : the operations that change the pool, each under the lock.   *)
(* SpecQuery : the queries, between pushes, sweeps and header changes.     *)
(* SpecConc  : concurrent PushTx calls, step by step.                      *)
(* SpecSeq   : sortEthSignTyTx on a list of transactions.                  *)
(* SpecRound : one caller's RemoveTxs, commit and rollback call sequences. *)
(* SpecFee   : GetProperFeeRate on requests and cache answers.             *)
(* SpecReady : the header and sync pollers, Close() and Wait().            *)
(* SpecWait  : the same with two callers of Wait().                        *)
(* SpecDelay : pushDelayTxRoutine, its feeds and Close().                  *)
(* SpecShutdown : every goroutine and one Close(), fairly scheduled.       *)
(* SpecPrune : removeBlockedTxs between pushes, header polls and Close().  *)
(* SpecLock  : two threads running the methods statement by statement on   *)
(*             proxyMtx.                                                   *)
(***************************************************************************)
EXTENDS Integers, Sequences, FiniteSets, TLC

VARIABLES
    \* ---- lifecycle (Mempool fields and goroutine positions) ----
    started,        \* SetQueueClient has run
    forceAccept,    \* cfg.ForceAccept
    isclose,        \* mem.isclose (int32 read/written atomically)
    doneCloses,     \* number of close(mem.done) executed
    panicked,       \* a goroutine panicked (the process is gone)
    clientClosed,   \* mem.client.Close() has run
    tickerStopped,  \* mem.removeBlockTicket.Stop() has run
    tickBuf,        \* ticks buffered in removeBlockTicket.C (capacity 1)
    wg,             \* mem.wg counter
    closePc,        \* position of each Close() call
    hdrPc,          \* position of pollLastHeader
    syncPc,         \* position of checkSync
    prunePc,        \* position of removeBlockedTxs
    evtPc,          \* position of eventProcess
    delayPc,        \* position of pushDelayTxRoutine
    header,         \* mem.header: NoHeader or a height
    sync,           \* mem.sync
    poolHeader,     \* tokens in mem.poolHeader (capacity 2)
    p2pNotified,    \* EventIsSync messages sent to p2p
    delayChan,      \* mem.delayTxListChan: batches in flight
    sendList,       \* pushDelayTxRoutine: transactions of the pass in progress
    retryList,      \* pushDelayTxRoutine: retryList
    delayFeeds,     \* batches delivered to delayTxListChan so far
    sendErr,        \* pushDelayTxRoutine: err of the last SendTx in push2Mempool
    passLog         \* pushDelayTxRoutine: the pass in progress or last made: what
                    \* started it, the list it ranges over, the errs so far

\* ---- txCache and the state PushTx / queries work on ----
VARIABLES
    txMap,          \* hash index: hash -> Item
    accTxs,         \* account index: sender -> hashes in insertion order
    qcache,         \* fee-ordered queue: hashes, fee descending, ties oldest first
    lastTx,         \* insertion order of the resident items (GetLatestTx)
    shashTx,        \* short-hash index: short hash -> hash
    minFee,         \* mem.cfg.MinTxFeeRate
    mtx,            \* mem.proxyMtx: NoThread or the thread holding it
    call,           \* per thread: the PushTx call in progress or returned
    del,            \* the delBlock call in progress
    reply           \* what the last completed operation returned

\* ---- callers whose call sequences are followed ----
VARIABLES
    seqIn,          \* sortEthSignTyTx: the txs it is called with
    seqCur,         \* sortEthSignTyTx: what getCurrentNonce answers per sender
    seqOut,         \* sortEthSignTyTx: what each call so far returned
    round,          \* a caller running push / commit / rollback on one block
    feeCalls,       \* GetProperFeeRate: the configuration and the calls made
    waitPc,         \* position of each caller of Wait()
    ops             \* per thread: the operation it runs and its next statement

studyVars == <<seqIn, seqCur, seqOut, round, feeCalls, waitPc, ops>>

poolVars == <<txMap, accTxs, qcache, lastTx, shashTx, minFee, mtx, call, del, reply,
              studyVars>>

lifeVars == <<started, forceAccept, isclose, doneCloses, panicked, clientClosed,
              tickerStopped, tickBuf, wg, closePc, hdrPc, syncPc, prunePc, evtPc,
              delayPc, header, sync, poolHeader, p2pNotified, delayChan, sendList,
              retryList, delayFeeds, sendErr, passLog>>

vars == <<lifeVars, poolVars>>

\* ------------------------------------------------------------------ bounds
\* Highest chain height the chain-state provider reports.
MaxHeight == 3
\* Batches the delayed-tx feed delivers in one run.
MaxDelayFeeds == 1
\* Largest count a getTxList filter asks for.
MaxCount == 2
\* Longest list sortEthSignTyTx is called with, and how often it is called.
MaxSeqLen == 3
MaxSeqCalls == 2

Closers == {"c1", "c2"}
NoHeader == -1
Heights == 0..MaxHeight
\* The heights the chain-state provider answers the header poller with.
PolledHeights == {0, MaxHeight}
DelayTxs == {"d1"}
DelayBatches == {<<"d1">>}
SendResults == {"ok", "ErrMemFull", "ErrOther"}

\* ------------------------------------------------------------------ Close
\* isClose(): atomic.LoadInt32(&mem.isclose) == 1
isClose == isclose = 1

\* No pass of pushDelayTxRoutine made yet.
NoPass == [from |-> "none", list |-> <<>>, errs |-> <<>>]

\* NewMempool: the state after construction.
InitLife ==
    /\ started = FALSE
    /\ forceAccept \in BOOLEAN
    /\ isclose = 0
    /\ doneCloses = 0
    /\ panicked = FALSE
    /\ clientClosed = FALSE
    /\ tickerStopped = FALSE
    /\ tickBuf = 0
    /\ wg = 0
    /\ closePc = [c \in Closers |-> "idle"]
    /\ hdrPc = "off"
    /\ syncPc = "off"
    /\ prunePc = "off"
    /\ evtPc = "off"
    /\ delayPc = "off"
    /\ header = NoHeader
    /\ sync = FALSE
    /\ poolHeader = 0
    /\ p2pNotified = 0
    /\ delayChan = <<>>
    /\ sendList = <<>>
    /\ retryList = <<>>
    /\ delayFeeds = 0
    /\ sendErr = "nil"
    /\ passLog = NoPass

\* SetQueueClient: four goroutines are added to the wait group and started;
\* pushDelayTxRoutine is started with no wg.Add.
SetQueueClient ==
    /\ ~started /\ ~panicked
    /\ started' = TRUE
    /\ wg' = wg + 4
    /\ hdrPc' = "loop"
    /\ syncPc' = "start"
    /\ prunePc' = "select"
    /\ evtPc' = "run"
    /\ delayPc' = "select"
    /\ UNCHANGED <<forceAccept, isclose, doneCloses, panicked, clientClosed,
                   tickerStopped, tickBuf, closePc, header, sync, poolHeader,
                   p2pNotified, delayChan, sendList, retryList, delayFeeds, sendErr, passLog>>
    /\ UNCHANGED poolVars

closeFrame == <<started, forceAccept, hdrPc, syncPc, prunePc, evtPc, delayPc,
                header, sync, poolHeader, p2pNotified, delayChan, sendList,
                retryList, delayFeeds, sendErr, passLog, poolVars>>

\* A caller enters Close().
CloseCall(c) ==
    /\ started /\ ~panicked
    /\ closePc[c] = "idle"
    /\ closePc' = [closePc EXCEPT ![c] = "check"]
    /\ UNCHANGED <<isclose, doneCloses, panicked, clientClosed, tickerStopped,
                   tickBuf, wg>>
    /\ UNCHANGED closeFrame

\* if mem.isClose() { return }
CloseCheck(c) ==
    /\ ~panicked
    /\ closePc[c] = "check"
    /\ closePc' = [closePc EXCEPT ![c] = IF isClose THEN "returnedEarly" ELSE "store"]
    /\ UNCHANGED <<isclose, doneCloses, panicked, clientClosed, tickerStopped,
                   tickBuf, wg>>
    /\ UNCHANGED closeFrame

\* atomic.StoreInt32(&mem.isclose, 1)
CloseStore(c) ==
    /\ ~panicked
    /\ closePc[c] = "store"
    /\ isclose' = 1
    /\ closePc' = [closePc EXCEPT ![c] = "closeDone"]
    /\ UNCHANGED <<doneCloses, panicked, clientClosed, tickerStopped, tickBuf, wg>>
    /\ UNCHANGED closeFrame

\* close(mem.done): closing a closed channel panics.
CloseDone(c) ==
    /\ ~panicked
    /\ closePc[c] = "closeDone"
    /\ IF doneCloses = 0
         THEN /\ doneCloses' = 1
              /\ closePc' = [closePc EXCEPT ![c] = "clientClose"]
              /\ UNCHANGED panicked
         ELSE /\ doneCloses' = doneCloses + 1
              /\ panicked' = TRUE
              /\ closePc' = [closePc EXCEPT ![c] = "panicked"]
    /\ UNCHANGED <<isclose, clientClosed, tickerStopped, tickBuf, wg>>
    /\ UNCHANGED closeFrame

\* if mem.client != nil { mem.client.Close() }
CloseClient(c) ==
    /\ ~panicked
    /\ closePc[c] = "clientClose"
    /\ clientClosed' = TRUE
    /\ closePc' = [closePc EXCEPT ![c] = "tickerStop"]
    /\ UNCHANGED <<isclose, doneCloses, panicked, tickerStopped, tickBuf, wg>>
    /\ UNCHANGED closeFrame

\* mem.removeBlockTicket.Stop(): no new tick; a buffered one stays in the channel.
CloseTickerStop(c) ==
    /\ ~panicked
    /\ closePc[c] = "tickerStop"
    /\ tickerStopped' = TRUE
    /\ closePc' = [closePc EXCEPT ![c] = "wait"]
    /\ UNCHANGED <<isclose, doneCloses, panicked, clientClosed, tickBuf, wg>>
    /\ UNCHANGED closeFrame

\* mem.wg.Wait(), then return.
CloseWait(c) ==
    /\ ~panicked
    /\ closePc[c] = "wait"
    /\ wg = 0
    /\ closePc' = [closePc EXCEPT ![c] = "returned"]
    /\ UNCHANGED <<isclose, doneCloses, panicked, clientClosed, tickerStopped,
                   tickBuf, wg>>
    /\ UNCHANGED closeFrame

Close(c) ==
    \/ CloseCall(c)
    \/ CloseCheck(c)
    \/ CloseStore(c)
    \/ CloseDone(c)
    \/ CloseClient(c)
    \/ CloseTickerStop(c)
    \/ CloseWait(c)

\* ------------------------------------------------------------ transactions
\* The transactions of the model. A hash names one transaction, so sender, fee
\* and admission height are functions of the hash.
Hashes == {"h1", "h2", "h3", "h4", "h5", "h6", "h7", "m0"}
Senders == {"A", "B", "M"}
NoHash == "none"
NoThread == "nobody"

From(h) == CASE h \in {"h1", "h2", "h3", "h4", "h7", "n5", "n6", "n7", "n8"} -> "A"
             [] h \in {"h5", "h6"} -> "B"
             [] OTHER -> "M"

Fee(h) == CASE h = "h1" -> 10
            [] h = "h2" -> 20
            [] h = "h3" -> 5
            [] h = "h4" -> 30
            [] h = "h5" -> 10
            [] h = "h6" -> 20
            [] h = "h7" -> 10
            [] h = "m1" -> 10
            [] OTHER -> 0

\* The height H at which the transaction was admitted for the first time.
TxHeight(h) == CASE h \in {"h1", "h5"} -> 0
                 [] h \in {"h2", "h3"} -> 1
                 [] OTHER -> 2

\* tx.ActionName() == types.MinerAction
IsMiner(h) == h \in {"m0", "m1"}

\* tx.GetGroupCount()
GroupCount(h) == IF h \in {"h5", "h6"} THEN 2 ELSE 0

\* CalcTxShortHash: a truncation, so two hashes may share it.
ShortHashes == {"s1", "s2", "s3", "s4", "s5", "s6"}
ShortHash(h) == CASE h \in {"h1", "h5"} -> "s1"
                  [] h = "h2" -> "s2"
                  [] h \in {"h3", "h7"} -> "s3"
                  [] h = "h4" -> "s4"
                  [] h = "h6" -> "s5"
                  [] OTHER -> "s6"

\* ------------------------------------------------------------ configuration
\* cfg.MaxTxNumPerAccount, cfg.PoolCacheSize, cfg.MaxTxLast, cfg.MaxTxFeeRate
cfgMaxTxNumPerAccount == 2
cfgPoolCacheSize == 3
cfgMaxTxLast == 4
cfgMaxTxFeeRate == 30
\* The values SetMinFee is called with; the first is the configured one.
MinFees == {1, 10}

\* newCache(cfg.MaxTxNumPerAccount, cfg.MaxTxLast, cfg.PoolCacheSize): what the
\* cache is constructed with.
cacheAccLimit_Swapped == cfgPoolCacheSize
cacheAccLimit == cfgMaxTxNumPerAccount
cacheSize_Swapped == cfgMaxTxLast
cacheSize == cfgPoolCacheSize
cacheTxLast == cfgMaxTxLast

\* ------------------------------------------------------------------ helpers
RECURSIVE SeqWithout(_, _)
\* s with every occurrence of x taken out, order kept.
SeqWithout(s, x) ==
    IF s = <<>> THEN <<>>
    ELSE IF Head(s) = x THEN SeqWithout(Tail(s), x)
    ELSE <<Head(s)>> \o SeqWithout(Tail(s), x)

SeqSet(s) == {s[i] : i \in 1..Len(s)}

Occurrences(s, x) == Cardinality({i \in 1..Len(s) : s[i] = x})

\* ------------------------------------------------------------------ txCache
\* The cache as one value: its five indices.
Item(h) == [hash |-> h, from |-> From(h), fee |-> Fee(h), height |-> TxHeight(h)]

cache == [txMap |-> txMap, accTxs |-> accTxs, qcache |-> qcache,
          lastTx |-> lastTx, shashTx |-> shashTx]

SetCache(c) ==
    /\ txMap' = c.txMap
    /\ accTxs' = c.accTxs
    /\ qcache' = c.qcache
    /\ lastTx' = c.lastTx
    /\ shashTx' = c.shashTx

cacheVars == <<txMap, accTxs, qcache, lastTx, shashTx>>

\* newCache: the empty cache.
EmptyCache ==
    [txMap |-> [x \in {} |-> Item(x)],
     accTxs |-> [a \in Senders |-> <<>>],
     qcache |-> <<>>,
     lastTx |-> <<>>,
     shashTx |-> [s \in ShortHashes |-> NoHash]]

\* cache.Exist(hash)
Exist(c, h) == h \in DOMAIN c.txMap

\* cache.Size()
Size(c) == Len(c.qcache)

\* cache.TxNumOfAccount(addr)
TxNumOfAccount(c, a) == Len(c.accTxs[a])

\* mem.header.GetHeight(): 0 on a nil header.
GetHeight == IF header = NoHeader THEN 0 ELSE header

\* isExpired(cfg, item, height, blockTime): the item's age in blocks has reached
\* the expiry window.
isExpired(h, height) == height >= TxHeight(h) + cacheTxLast

\* Position of a new item of fee f in the queue: behind every item whose fee is
\* not lower (fee descending, ties oldest first).
QueuePos(q, f) == Cardinality({i \in 1..Len(q) : Fee(q[i]) >= f})

QueueInsert(q, h) ==
    LET k == QueuePos(q, Fee(h))
    IN SubSeq(q, 1, k) \o <<h>> \o SubSeq(q, k + 1, Len(q))

\* The lowest-fee hash of a non-empty list in which equal fees stand oldest
\* first: the oldest of the lowest.
LowestOf(s) ==
    LET low == CHOOSE i \in 1..Len(s) :
                 \A j \in 1..Len(s) :
                    \/ Fee(s[j]) > Fee(s[i])
                    \/ Fee(s[j]) = Fee(s[i]) /\ i <= j
    IN s[low]

\* What cache.Push decides for hash h in cache c, at expiry reference point
\* height and minimum fee rate mf: the error ("nil" for admission) and the item
\* it evicts to make room (NoHash for none).
PushVerdict(c, h, height, mf) ==
    IF Exist(c, h) THEN [err |-> "Duplicate", victim |-> NoHash]
    ELSE IF isExpired(h, height) THEN [err |-> "Expired", victim |-> NoHash]
    ELSE IF Fee(h) < mf THEN [err |-> "FeeBelowMinimum", victim |-> NoHash]
    ELSE IF Fee(h) > cfgMaxTxFeeRate THEN [err |-> "FeeAboveMaximum", victim |-> NoHash]
    ELSE IF Len(c.accTxs[From(h)]) >= cacheAccLimit
      THEN IF Len(c.accTxs[From(h)]) = 0 \/ Fee(h) <= Fee(LowestOf(c.accTxs[From(h)]))
             THEN [err |-> "AccountLimitExceeded", victim |-> NoHash]
             ELSE [err |-> "nil", victim |-> LowestOf(c.accTxs[From(h)])]
    ELSE IF Len(c.qcache) >= cacheSize
      THEN IF Len(c.qcache) = 0 \/ Fee(h) <= Fee(LowestOf(c.qcache))
             THEN [err |-> "PoolFull", victim |-> NoHash]
             ELSE [err |-> "nil", victim |-> LowestOf(c.qcache)]
    ELSE [err |-> "nil", victim |-> NoHash]

\* Remove that forgets the account index.
Remove_KeepsAccount(c, h) ==
    [txMap |-> [x \in DOMAIN c.txMap \ {h} |-> c.txMap[x]],
     accTxs |-> c.accTxs,
     qcache |-> SeqWithout(c.qcache, h),
     lastTx |-> SeqWithout(c.lastTx, h),
     shashTx |-> [s \in ShortHashes |->
                    IF c.shashTx[s] = h THEN NoHash ELSE c.shashTx[s]]]

\* cache.Remove(hash): the item leaves every index.
Remove(c, h) ==
    [txMap |-> [x \in DOMAIN c.txMap \ {h} |-> c.txMap[x]],
     accTxs |-> [a \in Senders |-> SeqWithout(c.accTxs[a], h)],
     qcache |-> SeqWithout(c.qcache, h),
     lastTx |-> SeqWithout(c.lastTx, h),
     shashTx |-> [s \in ShortHashes |->
                    IF c.shashTx[s] = h THEN NoHash ELSE c.shashTx[s]]]

\* The insertion cache.Push performs once it has decided to admit h: the victim
\* v, when there is one, leaves first, then h enters every index.
Admit(c, h, v) ==
    LET d == IF v = NoHash THEN c ELSE Remove(c, v)
    IN [txMap |-> [x \in DOMAIN d.txMap \cup {h} |-> Item(x)],
        accTxs |-> [d.accTxs EXCEPT ![From(h)] = Append(@, h)],
        qcache |-> QueueInsert(d.qcache, h),
        lastTx |-> Append(d.lastTx, h),
        shashTx |-> [d.shashTx EXCEPT ![ShortHash(h)] = h]]

\* cache.Push(tx): the cache afterwards.
Push(c, h, height, mf) ==
    LET v == PushVerdict(c, h, height, mf)
    IN IF v.err = "nil" THEN Admit(c, h, v.victim) ELSE c

\* removeTxs that stops after the first hash of the list.
removeTxs_FirstOnly(c, hashes) ==
    IF hashes = <<>> THEN c
    ELSE IF Exist(c, Head(hashes)) THEN Remove(c, Head(hashes)) ELSE c

RECURSIVE removeTxs(_, _)
\* removeTxs(hashes): for each hash, Remove when Exist.
removeTxs(c, hashes) ==
    IF hashes = <<>> THEN c
    ELSE removeTxs(IF Exist(c, Head(hashes)) THEN Remove(c, Head(hashes)) ELSE c,
                   Tail(hashes))

RECURSIVE removeExpiredFrom(_, _, _)
\* Walk over the items in list todo, removing from c each that is expired.
removeExpiredFrom(c, todo, height) ==
    IF todo = <<>> THEN c
    ELSE removeExpiredFrom(
           IF isExpired(Head(todo), height) THEN Remove(c, Head(todo)) ELSE c,
           Tail(todo), height)

\* cache.removeExpiredTx(cfg, height, blockTime)
removeExpiredTx(c, height) == removeExpiredFrom(c, c.qcache, height)

\* ------------------------------------------------------- Nonce Sequencer
\* types.IsEthSignID(sig.Ty) and the executor is not in the para-chain namespace.
IsEthSign(h) == h \in {"h1", "h2", "h4", "h5", "h6", "n5", "n6", "n7", "n8"}

\* tx.GetNonce()
Nonce(h) == CASE h = "h1" -> 1
              [] h = "h2" -> 2
              [] h = "h4" -> 4
              [] h = "h5" -> 0
              [] h = "h6" -> 1
              [] h = "n5" -> 5
              [] h = "n6" -> 6
              [] h = "n7" -> 7
              [] h = "n8" -> 8
              [] OTHER -> 0

Nonces == 0..1

RECURSIVE InsertByNonce(_, _)
\* x put into the nonce-sorted list s behind every entry whose nonce is not higher.
InsertByNonce(s, x) ==
    IF s = <<>> THEN <<x>>
    ELSE IF Nonce(Head(s)) <= Nonce(x) THEN <<Head(s)>> \o InsertByNonce(Tail(s), x)
    ELSE <<x>> \o s

RECURSIVE SortByNonce(_, _)
\* sort.SliceStable by nonce ascending: sorted is the prefix already in place.
SortByNonce(sorted, rest) ==
    IF rest = <<>> THEN sorted
    ELSE SortByNonce(InsertByNonce(sorted, Head(rest)), Tail(rest))

RECURSIVE SelectSeqBy(_, _, _)
\* The entries of s whose sender is a and that match / do not match the scheme.
SelectSeqBy(s, a, eth) ==
    IF s = <<>> THEN <<>>
    ELSE IF IsEthSign(Head(s)) = eth /\ (~eth \/ From(Head(s)) = a)
           THEN <<Head(s)>> \o SelectSeqBy(Tail(s), a, eth)
           ELSE SelectSeqBy(Tail(s), a, eth)

RECURSIVE ConsecutiveRun(_, _)
\* etxs[1..k] with k maximal such that each nonce is its predecessor's plus one;
\* run holds the entries taken so far.
ConsecutiveRun(run, rest) ==
    IF rest = <<>> THEN run
    ELSE IF Nonce(Head(rest)) = Nonce(run[Len(run)]) + 1
           THEN ConsecutiveRun(Append(run, Head(rest)), Tail(rest))
           ELSE run

\* What the loop body of sortEthSignTyTx appends for sender a, whose next nonce
\* the oracle reports as cur.
SenderRun(txs, a, cur) ==
    LET etxs == SortByNonce(<<>>, SelectSeqBy(txs, a, TRUE))
    IN IF etxs # <<>> /\ cur = Nonce(etxs[1])
         THEN ConsecutiveRun(<<etxs[1]>>, Tail(etxs))
         ELSE <<>>

RECURSIVE MergeRuns(_, _, _, _)
\* The range over the map ethsignTxs, visiting its keys in the order given.
MergeRuns(merge, txs, order, cur) ==
    IF order = <<>> THEN merge
    ELSE MergeRuns(merge \o SenderRun(txs, Head(order), cur[Head(order)]),
                   txs, Tail(order), cur)

\* The senders that have a matching transaction in txs: the keys of ethsignTxs.
EthSenders(txs) == {From(txs[i]) : i \in {j \in 1..Len(txs) : IsEthSign(txs[j])}}

\* Every order in which a range over a map with keys S can visit them.
Orders(S) == {o \in [1..Cardinality(S) -> S] : \A a \in S : \E i \in DOMAIN o : o[i] = a}

\* sortEthSignTyTx that never appends the other transactions to merge.
sortEthSignTyTx_DropsOthers(txs, cur, order) ==
    IF Len(SelectSeqBy(txs, "A", FALSE)) = Len(txs) THEN txs
    ELSE MergeRuns(<<>>, txs, order, cur)

\* sortEthSignTyTx that appends the runs to txs instead of merge.
sortEthSignTyTx_AppendsToInput(txs, cur, order) ==
    IF Len(SelectSeqBy(txs, "A", FALSE)) = Len(txs) THEN txs
    ELSE MergeRuns(txs, txs, order, cur)

\* sortEthSignTyTx(txs) with the oracle answering cur and the map visited in order.
sortEthSignTyTx(txs, cur, order) ==
    LET merge == SelectSeqBy(txs, "A", FALSE)
    IN IF Len(merge) = Len(txs) THEN txs
       ELSE MergeRuns(merge, txs, order, cur)

\* ------------------------------------------------------------------ queries
\* Chain height from which ForkCheckEthTxSort is active.
ForkCheckEthTxSort == 1

IsFork(height) == height >= ForkCheckEthTxSort

RECURSIVE WalkFilter_NoDup(_, _, _, _, _, _)
\* The visitor without its test of dupMap.
WalkFilter_NoDup(rest, txs, count, dupMap, isAll, height) ==
    IF rest = <<>> THEN txs
    ELSE IF isExpired(Head(rest), height) /\ ~isAll
           THEN WalkFilter_NoDup(Tail(rest), txs, count, dupMap, isAll, height)
    ELSE IF count > 0 /\ Len(txs) + 1 = count
           THEN Append(txs, Head(rest))
    ELSE WalkFilter_NoDup(Tail(rest), Append(txs, Head(rest)), count, dupMap, isAll, height)

RECURSIVE WalkFilter(_, _, _, _, _, _)
\* cache.Walk(0, visitor) of filterTxList over the rest of the queue: txs is
\* what the visitor has collected.
WalkFilter(rest, txs, count, dupMap, isAll, height) ==
    IF rest = <<>> THEN txs
    ELSE IF Head(rest) \in dupMap
           THEN WalkFilter(Tail(rest), txs, count, dupMap, isAll, height)
    ELSE IF isExpired(Head(rest), height) /\ ~isAll
           THEN WalkFilter(Tail(rest), txs, count, dupMap, isAll, height)
    ELSE IF count > 0 /\ Len(txs) + 1 = count
           THEN Append(txs, Head(rest))
    ELSE WalkFilter(Tail(rest), Append(txs, Head(rest)), count, dupMap, isAll, height)

\* filterTxList with the expiry test left out of the visitor.
filterTxList_NoExpiry(c, count, dupMap, isAll, cur, order) ==
    LET txs == WalkFilter(c.qcache, <<>>, count, dupMap, TRUE, GetHeight + 1)
    IN IF IsFork(GetHeight) THEN sortEthSignTyTx(txs, cur, order) ELSE txs

\* filterTxList(count, dupMap, isAll)
filterTxList(c, count, dupMap, isAll, cur, order) ==
    LET txs == WalkFilter(c.qcache, <<>>, count, dupMap, isAll, GetHeight + 1)
    IN IF IsFork(GetHeight) THEN sortEthSignTyTx(txs, cur, order) ELSE txs

\* cache.getTxByHash(hash): the transaction, or nil.
getTxByHash(c, h) == IF h \in DOMAIN c.txMap THEN c.txMap[h].hash ELSE NoHash

\* cache.GetSHashTxCache(sHash): the transaction, or nil.
GetSHashTxCache(c, sh) == IF sh \in ShortHashes THEN c.shashTx[sh] ELSE NoHash

\* getTxListByHash(hashList): one entry per requested hash, nil where not found.
getTxListByHash(c, hashes, isShort) ==
    [i \in 1..Len(hashes) |->
        IF isShort THEN GetSHashTxCache(c, hashes[i]) ELSE getTxByHash(c, hashes[i])]

RECURSIVE GetAccTxs(_, _)
\* cache.GetAccTxs(addrs): every transaction of each address.
GetAccTxs(c, addrs) ==
    IF addrs = <<>> THEN <<>>
    ELSE c.accTxs[Head(addrs)] \o GetAccTxs(c, Tail(addrs))

\* GetLatestTx returns the latest ten transactions.
LatestN == 10

\* cache.GetLatestTx(): the most recent LatestN by insertion order.
GetLatestTx(c) ==
    IF Len(c.lastTx) <= LatestN THEN c.lastTx
    ELSE SubSeq(c.lastTx, Len(c.lastTx) - LatestN + 1, Len(c.lastTx))

\* ------------------------------------------------------------ orchestrator
Threads == {"t1", "t2", "t3"}
Blocks == {<<>>, <<"m0", "h1", "h6">>, <<"h5", "h6", "h3">>}
HashLists == {<<"h1">>, <<"h2", "h2">>, <<"h4", "h5">>, <<"h3", "m0">>}
ShortLists == {<<"s1">>, <<"s2", "s5">>}
AddrLists == {<<"A">>, <<"B", "A">>}
DupSets == {{}, {"h2"}, {"h4", "h6"}}
Counts == 0..MaxCount

\* reply.victim is not returned by the code: it names the item a push evicted.
\* reply.count and reply.dup are the filter getTxList was called with, reply.ok
\* the boolean RemoveTxsOfBlock returns.
NoReply == [op |-> "none", txs |-> <<>>, err |-> "nil", victim |-> NoHash,
            count |-> 0, dup |-> {}, ok |-> FALSE]
IdleCall == [pc |-> "idle", tx |-> NoHash, err |-> "nil", victim |-> NoHash]
\* del.log is not kept by the code: for each pass of the loop made so far, the
\* index it started at, the number of block transactions it took, the candidate
\* and what became of it. It is written for the caller that is followed (round)
\* and stays empty for any other.
IdleDel == [pc |-> "idle", blk |-> <<>>, i |-> 0, tx |-> NoHash, log |-> <<>>]

\* mem.proxyMtx.Lock() can be taken.
LockFree_NoMutex == TRUE
LockFree == mtx = NoThread

\* What an operation on the pool leaves alone besides the pool and the header:
\* lifeCore when its caller is followed in round, lifeRest when it is not.
lifeCore == <<started, forceAccept, isclose, doneCloses, panicked, clientClosed,
              tickerStopped, tickBuf, wg, closePc, hdrPc, syncPc, prunePc, evtPc,
              delayPc, sync, poolHeader, p2pNotified, delayChan, sendList,
              retryList, delayFeeds, sendErr, passLog, seqIn, seqCur, seqOut,
              feeCalls, waitPc, ops>>
lifeRest == <<lifeCore, round>>

InitPool ==
    /\ txMap = EmptyCache.txMap
    /\ accTxs = EmptyCache.accTxs
    /\ qcache = EmptyCache.qcache
    /\ lastTx = EmptyCache.lastTx
    /\ shashTx = EmptyCache.shashTx
    /\ minFee = 1
    /\ mtx = NoThread
    /\ call = [t \in Threads |-> IdleCall]
    /\ del = IdleDel
    /\ reply = NoReply

\* The callers of Wait().
Waiters == {"w1", "w2"}

\* A thread that runs no operation.
IdleOp == [op |-> "none", pc |-> 0]

\* No GetProperFeeRate call was made; the configuration is of no account.
NoFee == [max |-> 0, isLevel |-> FALSE, maxTxNumber |-> 0, calls |-> <<>>]

\* No caller is followed.
IdleRound == [pc |-> "idle", kind |-> "none", blk |-> <<>>, i |-> 0, snaps |-> <<>>,
              victims |-> {}]

InitStudy ==
    /\ seqIn = <<>>
    /\ seqCur = [a \in Senders |-> 0]
    /\ seqOut = <<>>
    /\ round = IdleRound
    /\ feeCalls = NoFee
    /\ waitPc = [w \in Waiters |-> "idle"]
    /\ ops = [t \in Threads |-> IdleOp]

\* -------------------------------------------------- orchestrator operations
\* PushTx with the error of cache.Push dropped: it returns nil whatever happened.
PushTx_DropsError(h) ==
    /\ LockFree
    /\ SetCache(Push(cache, h, GetHeight + 1, minFee))
    /\ reply' = [NoReply EXCEPT !.op = "PushTx", !.txs = <<h>>,
                 !.victim = PushVerdict(cache, h, GetHeight + 1, minFee).victim]
    /\ UNCHANGED <<minFee, mtx, call, del, header, lifeRest>>

\* PushTx(tx): Lock, cache.Push, Unlock; the whole critical section.
PushTxOp(h) ==
    /\ LockFree
    /\ SetCache(Push(cache, h, GetHeight + 1, minFee))
    /\ reply' = [NoReply EXCEPT !.op = "PushTx", !.txs = <<h>>,
                 !.err = PushVerdict(cache, h, GetHeight + 1, minFee).err,
                 !.victim = PushVerdict(cache, h, GetHeight + 1, minFee).victim]
    /\ UNCHANGED <<minFee, mtx, call, del, header, lifeCore>>

\* PushTx(tx) by a caller that is not followed.
PushTx(h) == PushTxOp(h) /\ UNCHANGED round

\* RemoveTxs(hashList): Lock, removeTxs, Unlock, return nil.
RemoveTxsOp(hashes) ==
    /\ LockFree
    /\ SetCache(removeTxs(cache, hashes))
    /\ reply' = [NoReply EXCEPT !.op = "RemoveTxs"]
    /\ UNCHANGED <<minFee, mtx, call, del, header, lifeCore>>

\* RemoveTxs(hashList) by a caller that is not followed.
RemoveTxs(hashes) == RemoveTxsOp(hashes) /\ UNCHANGED round

\* RemoveTxsOfBlock that reports whether it removed anything.
RemoveTxsOfBlockOp_ReportsRemoval(blk) ==
    /\ LockFree
    /\ SetCache(removeTxs(cache, blk))
    /\ reply' = [NoReply EXCEPT !.op = "RemoveTxsOfBlock",
                                !.ok = (SeqSet(blk) \cap DOMAIN txMap # {})]
    /\ UNCHANGED <<minFee, mtx, call, del, header, lifeCore>>

\* RemoveTxsOfBlock(block): each transaction of the block is removed when it
\* exists; returns true.
RemoveTxsOfBlockOp(blk) ==
    /\ LockFree
    /\ SetCache(removeTxs(cache, blk))
    /\ reply' = [NoReply EXCEPT !.op = "RemoveTxsOfBlock", !.ok = TRUE]
    /\ UNCHANGED <<minFee, mtx, call, del, header, lifeCore>>

\* RemoveTxsOfBlock(block) by a caller that is not followed.
RemoveTxsOfBlock(blk) == RemoveTxsOfBlockOp(blk) /\ UNCHANGED round

\* removeExpired(): the sweep at the next block's height.
removeExpired ==
    /\ LockFree
    /\ SetCache(removeExpiredTx(cache, GetHeight + 1))
    /\ reply' = NoReply
    /\ UNCHANGED <<minFee, mtx, call, del, header, lifeRest>>

\* setHeader(h)
setHeader(h) ==
    /\ LockFree
    /\ header' = h
    /\ reply' = NoReply
    /\ UNCHANGED <<cacheVars, minFee, mtx, call, del, lifeRest>>

\* SetMinFee(fee)
SetMinFee(fee) ==
    /\ LockFree
    /\ minFee' = fee
    /\ reply' = NoReply
    /\ UNCHANGED <<cacheVars, mtx, call, del, header, lifeRest>>

\* ------------------------------------------------------------------ delBlock
\* tx.Check(cfg, height, minFee, maxFee): the fee is within the bounds.
TxCheck(h, mf) == Fee(h) >= mf /\ Fee(h) <= cfgMaxTxFeeRate

\* mem.checkExpireValid(tx): not expired for the next block.
checkExpireValid(h) == ~isExpired(h, GetHeight + 1)

\* types.Transactions{Txs: blkTxs[i : i+groupCount]}.Tx(): the logical
\* transaction of a group is carried by the group's first transaction.
GroupTx(group) == group[1]

\* delBlock(block) is entered; an empty block returns at once.
delBlockCallOp(blk) ==
    /\ del.pc = "idle"
    /\ del' = IF Len(blk) <= 0 THEN IdleDel
              ELSE [pc |-> "loop", blk |-> blk, i |-> 0, tx |-> NoHash, log |-> <<>>]
    /\ reply' = IF Len(blk) <= 0 THEN [NoReply EXCEPT !.op = "delBlock"] ELSE NoReply
    /\ UNCHANGED <<cacheVars, minFee, mtx, call, header, lifeCore>>

\* del.log with a pass added / with the verdict of PushTx on its last pass.
Logged(log, pass) == IF round.pc = "idle" THEN log ELSE Append(log, pass)
Verdict(log, err) ==
    IF log = <<>> THEN log ELSE [log EXCEPT ![Len(log)].res = err]

\* delBlock(block) is entered by a caller that is not followed.
delBlockCall(blk) == delBlockCallOp(blk) /\ UNCHANGED round

\* The loop pass without the skip of the miner transaction at position 0.
delBlockLoop_NoMinerSkip ==
    /\ del.pc = "loop"
    /\ LockFree
    /\ IF del.i >= Len(del.blk)
         THEN del' = IdleDel
         ELSE LET tx0 == del.blk[del.i + 1]
                  groupCount == GroupCount(tx0)
                  grouped == groupCount > 1 /\ del.i + groupCount <= Len(del.blk)
                  tx == IF grouped
                          THEN GroupTx(SubSeq(del.blk, del.i + 1, del.i + groupCount))
                          ELSE tx0
                  i == IF grouped THEN del.i + groupCount - 1 ELSE del.i
                  pass == [at |-> del.i, n |-> i - del.i + 1, tx |-> tx]
              IN IF ~TxCheck(tx, minFee)
                   THEN del' = [del EXCEPT !.i = i + 1,
                                  !.log = Logged(@, pass @@ [res |-> "invalid"])]
                 ELSE IF ~checkExpireValid(tx)
                   THEN del' = [del EXCEPT !.i = i + 1,
                                  !.log = Logged(@, pass @@ [res |-> "expired"])]
                 ELSE del' = [del EXCEPT !.pc = "push", !.i = i, !.tx = tx,
                                !.log = Logged(@, pass @@ [res |-> "push"])]
    /\ reply' = IF del.i >= Len(del.blk) THEN [NoReply EXCEPT !.op = "delBlock"]
                                         ELSE NoReply
    /\ UNCHANGED <<cacheVars, minFee, mtx, call, header, lifeRest>>

\* The loop pass that reassembles a group and goes on at the next index.
delBlockLoop_RescansGroup ==
    /\ del.pc = "loop"
    /\ LockFree
    /\ IF del.i >= Len(del.blk)
         THEN del' = IdleDel
         ELSE LET tx0 == del.blk[del.i + 1]
                  groupCount == GroupCount(tx0)
                  grouped == groupCount > 1 /\ del.i + groupCount <= Len(del.blk)
                  tx == IF grouped
                          THEN GroupTx(SubSeq(del.blk, del.i + 1, del.i + groupCount))
                          ELSE tx0
                  i == del.i
                  pass == [at |-> del.i, n |-> i - del.i + 1, tx |-> tx]
              IN IF del.i = 0 /\ IsMiner(tx0)
                   THEN del' = [del EXCEPT !.i = del.i + 1,
                                  !.log = Logged(@, [at |-> 0, n |-> 1, tx |-> tx0,
                                                     res |-> "miner"])]
                 ELSE IF ~TxCheck(tx, minFee)
                   THEN del' = [del EXCEPT !.i = i + 1,
                                  !.log = Logged(@, pass @@ [res |-> "invalid"])]
                 ELSE IF ~checkExpireValid(tx)
                   THEN del' = [del EXCEPT !.i = i + 1,
                                  !.log = Logged(@, pass @@ [res |-> "expired"])]
                 ELSE del' = [del EXCEPT !.pc = "push", !.i = i, !.tx = tx,
                                !.log = Logged(@, pass @@ [res |-> "push"])]
    /\ reply' = IF del.i >= Len(del.blk) THEN [NoReply EXCEPT !.op = "delBlock"]
                                         ELSE NoReply
    /\ UNCHANGED <<cacheVars, minFee, mtx, call, header, lifeRest>>

\* One pass of the loop header and body up to the PushTx call: i counts from 0
\* as in the code, blk[i + 1] is blkTxs[i].
delBlockLoop ==
    /\ del.pc = "loop"
    /\ LockFree
    /\ IF del.i >= Len(del.blk)
         THEN del' = IdleDel
         ELSE LET tx0 == del.blk[del.i + 1]
                  groupCount == GroupCount(tx0)
                  grouped == groupCount > 1 /\ del.i + groupCount <= Len(del.blk)
                  tx == IF grouped
                          THEN GroupTx(SubSeq(del.blk, del.i + 1, del.i + groupCount))
                          ELSE tx0
                  i == IF grouped THEN del.i + groupCount - 1 ELSE del.i
                  pass == [at |-> del.i, n |-> i - del.i + 1, tx |-> tx]
              IN IF del.i = 0 /\ IsMiner(tx0)
                   THEN del' = [del EXCEPT !.i = del.i + 1,
                                  !.log = Logged(@, [at |-> 0, n |-> 1, tx |-> tx0,
                                                     res |-> "miner"])]
                 ELSE IF ~TxCheck(tx, minFee)
                   THEN del' = [del EXCEPT !.i = i + 1,
                                  !.log = Logged(@, pass @@ [res |-> "invalid"])]
                 ELSE IF ~checkExpireValid(tx)
                   THEN del' = [del EXCEPT !.i = i + 1,
                                  !.log = Logged(@, pass @@ [res |-> "expired"])]
                 ELSE del' = [del EXCEPT !.pc = "push", !.i = i, !.tx = tx,
                                !.log = Logged(@, pass @@ [res |-> "push"])]
    /\ reply' = IF del.i >= Len(del.blk) THEN [NoReply EXCEPT !.op = "delBlock"]
                                         ELSE NoReply
    /\ UNCHANGED <<cacheVars, minFee, mtx, call, header, lifeRest>>

\* delBlock that returns when PushTx fails.
delBlockPush_StopsOnError ==
    /\ del.pc = "push"
    /\ LockFree
    /\ SetCache(Push(cache, del.tx, GetHeight + 1, minFee))
    /\ del' = IF PushVerdict(cache, del.tx, GetHeight + 1, minFee).err # "nil"
                THEN IdleDel
                ELSE [del EXCEPT !.pc = "loop", !.i = del.i + 1, !.tx = NoHash,
                        !.log = Verdict(@, "nil")]
    /\ reply' = NoReply
    /\ UNCHANGED <<minFee, mtx, call, header, lifeRest>>

\* err = mem.PushTx(tx); the error is logged, the loop goes on.
delBlockPush ==
    /\ del.pc = "push"
    /\ LockFree
    /\ SetCache(Push(cache, del.tx, GetHeight + 1, minFee))
    /\ del' = [del EXCEPT !.pc = "loop", !.i = del.i + 1, !.tx = NoHash,
                 !.log = Verdict(@, PushVerdict(cache, del.tx, GetHeight + 1,
                                                minFee).err)]
    /\ reply' = NoReply
    /\ UNCHANGED <<minFee, mtx, call, header, lifeRest>>

delBlock ==
    \/ \E blk \in Blocks : delBlockCall(blk)
    \/ delBlockLoop
    \/ delBlockPush

\* ------------------------------------------------------------ query handlers
queryFrame == <<cacheVars, minFee, mtx, call, del, header, lifeRest>>

\* getTxList that takes what it returns out of the pool.
getTxList_Pops(count, dupMap) ==
    /\ LockFree
    /\ \E order \in Orders(EthSenders(WalkFilter(qcache, <<>>, count, dupMap, FALSE,
                                                  GetHeight + 1))) :
         \E cur \in [SeqSet(order) -> Nonces] :
            /\ reply' = [NoReply EXCEPT
                           !.op = "getTxList",
                           !.txs = filterTxList(cache, count, dupMap, FALSE, cur, order),
                           !.count = count, !.dup = dupMap]
            /\ SetCache(removeTxs(cache, filterTxList(cache, count, dupMap, FALSE,
                                                      cur, order)))
    /\ UNCHANGED <<minFee, mtx, call, del, header, lifeRest>>

\* getTxList(filterList)
getTxList(count, dupMap) ==
    /\ LockFree
    /\ \E order \in Orders(EthSenders(
                WalkFilter(qcache, <<>>, count, dupMap, FALSE, GetHeight + 1))) :
         \E cur \in [SeqSet(order) -> Nonces] :
            reply' = [NoReply EXCEPT
                        !.op = "getTxList",
                        !.txs = filterTxList(cache, count, dupMap, FALSE, cur, order),
                        !.count = count, !.dup = dupMap]
    /\ UNCHANGED queryFrame

\* getTxListByHash(hashList), by hash or by short hash
GetTxListByHash(hashes, isShort) ==
    /\ LockFree
    /\ reply' = [NoReply EXCEPT !.op = "getTxListByHash",
                                !.txs = getTxListByHash(cache, hashes, isShort)]
    /\ UNCHANGED queryFrame

\* GetAccTxs(addrs)
GetAccTxsCall(addrs) ==
    /\ LockFree
    /\ reply' = [NoReply EXCEPT !.op = "GetAccTxs", !.txs = GetAccTxs(cache, addrs)]
    /\ UNCHANGED queryFrame

\* GetLatestTx()
GetLatestTxCall ==
    /\ LockFree
    /\ reply' = [NoReply EXCEPT !.op = "GetLatestTx", !.txs = GetLatestTx(cache)]
    /\ UNCHANGED queryFrame

\* ------------------------------------------------------------------ SpecPool
\* Every operation that changes the pool, in any order.
InitSpecPool ==
    /\ InitLife
    /\ forceAccept = FALSE
    /\ InitPool
    /\ InitStudy

NextPool ==
    \/ \E h \in Hashes : PushTx(h)
    \/ \E hashes \in HashLists : RemoveTxs(hashes)
    \/ \E blk \in Blocks : RemoveTxsOfBlock(blk)
    \/ removeExpired
    \/ \E h \in Heights : setHeader(h)
    \/ delBlock

SpecPool == InitSpecPool /\ [][NextPool]_vars

\* ------------------------------------------------------------------ SpecConc
\* PushTx called from several threads at once, one step per statement.
ConcHashes == {"h1", "h2", "h4", "h5", "m0"}

concFrame == <<minFee, del, reply, header, lifeRest>>

\* mem.proxyMtx.Lock()
PushTxLock(t, h) ==
    /\ call[t].pc = "idle"
    /\ LockFree
    /\ mtx' = t
    /\ call' = [call EXCEPT ![t] = [IdleCall EXCEPT !.pc = "locked", !.tx = h]]
    /\ UNCHANGED cacheVars
    /\ UNCHANGED concFrame

\* cache.Push, first half: the checks.
PushTxCheck(t) ==
    /\ call[t].pc = "locked"
    /\ LET v == PushVerdict(cache, call[t].tx, GetHeight + 1, minFee)
       IN call' = [call EXCEPT ![t] = [@ EXCEPT !.pc = "decided", !.err = v.err,
                                                !.victim = v.victim]]
    /\ UNCHANGED <<cacheVars, mtx>>
    /\ UNCHANGED concFrame

\* cache.Push, second half: the insertion; then the deferred Unlock and return.
PushTxUnlock(t) ==
    /\ call[t].pc = "decided"
    /\ IF call[t].err = "nil"
         THEN SetCache(Admit(cache, call[t].tx, call[t].victim))
         ELSE UNCHANGED cacheVars
    /\ mtx' = NoThread
    /\ call' = [call EXCEPT ![t] = [@ EXCEPT !.pc = "returned"]]
    /\ UNCHANGED concFrame

NextConc ==
    \/ \E t \in Threads, h \in ConcHashes : PushTxLock(t, h)
    \/ \E t \in Threads : PushTxCheck(t)
    \/ \E t \in Threads : PushTxUnlock(t)

SpecConc == InitSpecPool /\ [][NextConc]_vars

\* ----------------------------------------------------------------- SpecQuery
\* The query handlers over a pool that fills, ages and is swept.
NextQuery ==
    \/ \E h \in Hashes : PushTx(h)
    \/ removeExpired
    \/ \E h \in Heights : setHeader(h)
    \/ \E fee \in MinFees : SetMinFee(fee)
    \/ \E count \in Counts, dupMap \in DupSets : getTxList(count, dupMap)
    \/ \E hashes \in HashLists : GetTxListByHash(hashes, FALSE)
    \/ \E hashes \in ShortLists : GetTxListByHash(hashes, TRUE)
    \/ \E addrs \in AddrLists : GetAccTxsCall(addrs)
    \/ GetLatestTxCall

SpecQuery == InitSpecPool /\ [][NextQuery]_vars

\* ------------------------------------------------------ background goroutines
lifePoolFrame == <<minFee, mtx, call, del, reply, studyVars>>

\* pollLastHeader: if mem.isClose() { return }
PollHeaderLoop ==
    /\ ~panicked
    /\ hdrPc = "loop"
    /\ hdrPc' = IF isClose THEN "defer" ELSE "fetch"
    /\ UNCHANGED <<started, forceAccept, isclose, doneCloses, panicked, clientClosed,
                   tickerStopped, tickBuf, wg, closePc, syncPc, prunePc, evtPc,
                   delayPc, header, sync, poolHeader, p2pNotified, delayChan,
                   sendList, retryList, delayFeeds, sendErr, passLog>>
    /\ UNCHANGED poolVars

\* pollLastHeader that returns after a failed request.
PollHeaderFetch_GivesUp ==
    /\ ~panicked
    /\ hdrPc = "fetch"
    /\ \/ /\ hdrPc' = "defer"
          /\ UNCHANGED header
       \/ /\ ~clientClosed
          /\ LockFree
          /\ \E h \in PolledHeights : header' = h
          /\ hdrPc' = "defer"
    /\ UNCHANGED <<started, forceAccept, isclose, doneCloses, panicked, clientClosed,
                   tickerStopped, tickBuf, wg, closePc, syncPc, prunePc, evtPc,
                   delayPc, sync, poolHeader, p2pNotified, delayChan,
                   sendList, retryList, delayFeeds, sendErr, passLog>>
    /\ UNCHANGED poolVars

\* pollLastHeader: GetLastHeader(); on an error sleep and retry, else setHeader
\* and return. A closed client answers with an error.
PollHeaderFetch ==
    /\ ~panicked
    /\ hdrPc = "fetch"
    /\ \/ /\ hdrPc' = "loop"
          /\ UNCHANGED header
       \/ /\ ~clientClosed
          /\ LockFree
          /\ \E h \in PolledHeights : header' = h
          /\ hdrPc' = "defer"
    /\ UNCHANGED <<started, forceAccept, isclose, doneCloses, panicked, clientClosed,
                   tickerStopped, tickBuf, wg, closePc, syncPc, prunePc, evtPc,
                   delayPc, sync, poolHeader, p2pNotified, delayChan,
                   sendList, retryList, delayFeeds, sendErr, passLog>>
    /\ UNCHANGED poolVars

\* pollLastHeader, deferred closure: mem.poolHeader <- struct{}{}
PollHeaderToken ==
    /\ ~panicked
    /\ hdrPc = "defer"
    /\ poolHeader < 2
    /\ poolHeader' = poolHeader + 1
    /\ hdrPc' = "wgDone"
    /\ UNCHANGED <<started, forceAccept, isclose, doneCloses, panicked, clientClosed,
                   tickerStopped, tickBuf, wg, closePc, syncPc, prunePc, evtPc,
                   delayPc, header, sync, p2pNotified, delayChan,
                   sendList, retryList, delayFeeds, sendErr, passLog>>
    /\ UNCHANGED poolVars

\* pollLastHeader, deferred: mem.wg.Done()
PollHeaderDone ==
    /\ ~panicked
    /\ hdrPc = "wgDone"
    /\ wg' = wg - 1
    /\ hdrPc' = "exited"
    /\ UNCHANGED <<started, forceAccept, isclose, doneCloses, panicked, clientClosed,
                   tickerStopped, tickBuf, closePc, syncPc, prunePc, evtPc,
                   delayPc, header, sync, poolHeader, p2pNotified, delayChan,
                   sendList, retryList, delayFeeds, sendErr, passLog>>
    /\ UNCHANGED poolVars

pollLastHeader ==
    \/ PollHeaderLoop
    \/ PollHeaderFetch
    \/ PollHeaderToken
    \/ PollHeaderDone

syncFrame == <<started, forceAccept, isclose, doneCloses, panicked, clientClosed,
               tickerStopped, tickBuf, closePc, hdrPc, prunePc, evtPc, delayPc,
               header, delayChan, sendList, retryList, delayFeeds, sendErr, passLog, poolVars>>

\* checkSync: if mem.getSync() { return }; if mem.cfg.ForceAccept { setSync(true) }
CheckSyncStart ==
    /\ ~panicked
    /\ syncPc = "start"
    /\ LockFree
    /\ IF sync
         THEN /\ syncPc' = "wgDone"
              /\ UNCHANGED sync
         ELSE /\ sync' = forceAccept
              /\ syncPc' = "loop"
    /\ UNCHANGED <<wg, poolHeader, p2pNotified>>
    /\ UNCHANGED syncFrame

\* checkSync whose loop does not look at the closed flag.
CheckSyncLoop_IgnoresClose ==
    /\ ~panicked
    /\ syncPc = "loop"
    /\ syncPc' = "poll"
    /\ UNCHANGED <<wg, sync, poolHeader, p2pNotified>>
    /\ UNCHANGED syncFrame

\* checkSync, loop head: if mem.isClose() { return }
CheckSyncLoop ==
    /\ ~panicked
    /\ syncPc = "loop"
    /\ syncPc' = IF isClose THEN "wgDone" ELSE "poll"
    /\ UNCHANGED <<wg, sync, poolHeader, p2pNotified>>
    /\ UNCHANGED syncFrame

\* checkSync that notifies p2p after every poll.
CheckSyncPoll_AlwaysNotifies ==
    /\ ~panicked
    /\ syncPc = "poll"
    /\ \/ /\ syncPc' = "loop"
          /\ p2pNotified' = p2pNotified + 1
          /\ UNCHANGED sync
       \/ /\ ~clientClosed
          /\ LockFree
          /\ sync' = TRUE
          /\ p2pNotified' = p2pNotified + 1
          /\ syncPc' = "wgDone"
    /\ UNCHANGED <<wg, poolHeader>>
    /\ UNCHANGED syncFrame

\* checkSync: EventIsSync to blockchain. A Send or Wait error, or a reply that
\* is not caught up: sleep and loop. Caught up: setSync(true), notify p2p, return.
CheckSyncPoll ==
    /\ ~panicked
    /\ syncPc = "poll"
    /\ \/ /\ syncPc' = "loop"
          /\ UNCHANGED <<sync, p2pNotified>>
       \/ /\ ~clientClosed
          /\ LockFree
          /\ sync' = TRUE
          /\ p2pNotified' = p2pNotified + 1
          /\ syncPc' = "wgDone"
    /\ UNCHANGED <<wg, poolHeader>>
    /\ UNCHANGED syncFrame

\* checkSync, deferred: mem.wg.Done()
CheckSyncDone ==
    /\ ~panicked
    /\ syncPc = "wgDone"
    /\ wg' = wg - 1
    /\ syncPc' = "token"
    /\ UNCHANGED <<sync, poolHeader, p2pNotified>>
    /\ UNCHANGED syncFrame

\* checkSync that signals readiness only when the sync flag is set.
CheckSyncToken_OnlyWhenSynced ==
    /\ ~panicked
    /\ syncPc = "token"
    /\ poolHeader < 2
    /\ poolHeader' = IF sync THEN poolHeader + 1 ELSE poolHeader
    /\ syncPc' = "exited"
    /\ UNCHANGED <<wg, sync, p2pNotified>>
    /\ UNCHANGED syncFrame

\* checkSync, deferred closure: mem.poolHeader <- struct{}{}
CheckSyncToken ==
    /\ ~panicked
    /\ syncPc = "token"
    /\ poolHeader < 2
    /\ poolHeader' = poolHeader + 1
    /\ syncPc' = "exited"
    /\ UNCHANGED <<wg, sync, p2pNotified>>
    /\ UNCHANGED syncFrame

checkSync ==
    \/ CheckSyncStart
    \/ CheckSyncLoop
    \/ CheckSyncPoll
    \/ CheckSyncDone
    \/ CheckSyncToken

pruneFrame == <<started, forceAccept, isclose, doneCloses, panicked, clientClosed,
                tickerStopped, closePc, hdrPc, syncPc, evtPc, delayPc, header,
                sync, poolHeader, p2pNotified, delayChan, sendList, retryList,
                delayFeeds, sendErr, passLog>>

\* removeBlockTicket fires: the tick is buffered in its channel of capacity 1.
Tick ==
    /\ started /\ ~panicked
    /\ ~tickerStopped
    /\ tickBuf = 0
    /\ tickBuf' = 1
    /\ UNCHANGED <<wg, prunePc>>
    /\ UNCHANGED pruneFrame
    /\ UNCHANGED poolVars

\* removeBlockedTxs: case <-mem.removeBlockTicket.C: if mem.isClose() { return }
RemoveBlockedTxsTick ==
    /\ ~panicked
    /\ prunePc = "select"
    /\ tickBuf = 1
    /\ tickBuf' = 0
    /\ prunePc' = IF isClose THEN "wgDone" ELSE "sweep"
    /\ UNCHANGED wg
    /\ UNCHANGED pruneFrame
    /\ UNCHANGED poolVars

\* The sweep with the header's own height as the reference point.
RemoveBlockedTxsSweep_AtHeight ==
    /\ ~panicked
    /\ prunePc = "sweep"
    /\ LockFree
    /\ SetCache(removeExpiredTx(cache, GetHeight))
    /\ prunePc' = "select"
    /\ UNCHANGED <<wg, tickBuf>>
    /\ UNCHANGED pruneFrame
    /\ UNCHANGED lifePoolFrame

\* removeBlockedTxs: mem.removeExpired(), then back to the select.
RemoveBlockedTxsSweep ==
    /\ ~panicked
    /\ prunePc = "sweep"
    /\ LockFree
    /\ SetCache(removeExpiredTx(cache, GetHeight + 1))
    /\ prunePc' = "select"
    /\ UNCHANGED <<wg, tickBuf>>
    /\ UNCHANGED pruneFrame
    /\ UNCHANGED lifePoolFrame

\* removeBlockedTxs: case <-mem.done
RemoveBlockedTxsDone ==
    /\ ~panicked
    /\ prunePc = "select"
    /\ doneCloses >= 1
    /\ prunePc' = "wgDone"
    /\ UNCHANGED <<wg, tickBuf>>
    /\ UNCHANGED pruneFrame
    /\ UNCHANGED poolVars

\* removeBlockedTxs, deferred: mem.wg.Done()
RemoveBlockedTxsExit ==
    /\ ~panicked
    /\ prunePc = "wgDone"
    /\ wg' = wg - 1
    /\ prunePc' = "exited"
    /\ UNCHANGED tickBuf
    /\ UNCHANGED pruneFrame
    /\ UNCHANGED poolVars

removeBlockedTxs ==
    \/ RemoveBlockedTxsTick
    \/ RemoveBlockedTxsSweep
    \/ RemoveBlockedTxsDone
    \/ RemoveBlockedTxsExit

\* eventProcess: leaves its loop on the shutdown signal, then mem.wg.Done().
eventProcessExit ==
    /\ ~panicked
    /\ evtPc = "run"
    /\ doneCloses >= 1
    /\ evtPc' = "exited"
    /\ wg' = wg - 1
    /\ UNCHANGED <<started, forceAccept, isclose, doneCloses, panicked, clientClosed,
                   tickerStopped, tickBuf, closePc, hdrPc, syncPc, prunePc,
                   delayPc, header, sync, poolHeader, p2pNotified, delayChan,
                   sendList, retryList, delayFeeds, sendErr, passLog>>
    /\ UNCHANGED poolVars

delayFrame == <<started, forceAccept, isclose, doneCloses, panicked, clientClosed,
                tickerStopped, tickBuf, wg, closePc, hdrPc, syncPc, prunePc, evtPc,
                header, sync, poolHeader, p2pNotified, poolVars>>

\* A batch of delayed transactions is put on mem.delayTxListChan.
FeedDelay(batch) ==
    /\ started /\ ~panicked
    /\ delayFeeds < MaxDelayFeeds
    /\ Len(delayChan) < 16
    /\ delayChan' = Append(delayChan, batch)
    /\ delayFeeds' = delayFeeds + 1
    /\ UNCHANGED <<delayPc, sendList, retryList, sendErr, passLog>>
    /\ UNCHANGED delayFrame

\* pushDelayTxRoutine: case <-mem.done: ticker.Stop(); return
DelayDone ==
    /\ ~panicked
    /\ delayPc = "select"
    /\ doneCloses >= 1
    /\ delayPc' = "exited"
    /\ UNCHANGED <<delayChan, sendList, retryList, delayFeeds, sendErr, passLog>>
    /\ UNCHANGED delayFrame

\* pushDelayTxRoutine: case delayList := <-mem.delayTxListChan
DelayRecv ==
    /\ ~panicked
    /\ delayPc = "select"
    /\ delayChan # <<>>
    /\ sendList' = Head(delayChan)
    /\ delayChan' = Tail(delayChan)
    /\ delayPc' = "pushing"
    /\ passLog' = [from |-> "chan", list |-> Head(delayChan), errs |-> <<>>]
    /\ UNCHANGED <<retryList, delayFeeds, sendErr>>
    /\ UNCHANGED delayFrame

\* A retry pass that leaves retryList as it is.
DelayTick_KeepsBuffer ==
    /\ ~panicked
    /\ delayPc = "select"
    /\ retryList # <<>>
    /\ sendList' = retryList
    /\ delayPc' = "pushing"
    /\ passLog' = [from |-> "tick", list |-> retryList, errs |-> <<>>]
    /\ UNCHANGED <<delayChan, retryList, delayFeeds, sendErr>>
    /\ UNCHANGED delayFrame

\* pushDelayTxRoutine: case <-ticker.C with a non-empty retryList
DelayTick ==
    /\ ~panicked
    /\ delayPc = "select"
    /\ retryList # <<>>
    /\ sendList' = retryList
    /\ retryList' = <<>>
    /\ delayPc' = "pushing"
    /\ passLog' = [from |-> "tick", list |-> retryList, errs |-> <<>>]
    /\ UNCHANGED <<delayChan, delayFeeds, sendErr>>
    /\ UNCHANGED delayFrame

\* push2Mempool that buffers the transaction after any error.
DelayPush_RetriesAnyError ==
    /\ ~panicked
    /\ delayPc = "pushing"
    /\ IF sendList = <<>>
         THEN /\ delayPc' = "select"
              /\ UNCHANGED <<sendList, retryList, sendErr, passLog>>
         ELSE /\ \E res \in SendResults :
                   /\ sendErr' = res
                   /\ passLog' = [passLog EXCEPT !.errs = Append(@, res)]
                   /\ retryList' = IF res # "ok"
                                     THEN Append(retryList, Head(sendList))
                                     ELSE retryList
              /\ sendList' = Tail(sendList)
              /\ UNCHANGED delayPc
    /\ UNCHANGED <<delayChan, delayFeeds>>
    /\ UNCHANGED delayFrame

\* pushDelayTxRoutine: push2Mempool(tx) for the next transaction of the pass;
\* SendTx answers res. The pass over, back to the select.
DelayPush ==
    /\ ~panicked
    /\ delayPc = "pushing"
    /\ IF sendList = <<>>
         THEN /\ delayPc' = "select"
              /\ UNCHANGED <<sendList, retryList, sendErr, passLog>>
         ELSE /\ \E res \in SendResults :
                   /\ sendErr' = res
                   /\ passLog' = [passLog EXCEPT !.errs = Append(@, res)]
                   /\ retryList' = IF res = "ErrMemFull"
                                     THEN Append(retryList, Head(sendList))
                                     ELSE retryList
              /\ sendList' = Tail(sendList)
              /\ UNCHANGED delayPc
    /\ UNCHANGED <<delayChan, delayFeeds>>
    /\ UNCHANGED delayFrame

pushDelayTxRoutine ==
    \/ DelayDone
    \/ DelayRecv
    \/ DelayTick
    \/ DelayPush

\* ----------------------------------------------------------------- SpecClose
InitSpecClose ==
    /\ InitLife
    /\ InitPool
    /\ InitStudy

NextClose ==
    \/ SetQueueClient
    \/ \E c \in Closers : Close(c)
    \/ pollLastHeader
    \/ checkSync
    \/ Tick
    \/ removeBlockedTxs
    \/ eventProcessExit
    \/ \E batch \in DelayBatches : FeedDelay(batch)
    \/ pushDelayTxRoutine

SpecClose == InitSpecClose /\ [][NextClose]_vars

\* ------------------------------------------------------------------ SpecLock
\* The operations statement by statement, as far as mem.proxyMtx and the state
\* it guards are concerned: what each takes, reads, writes and releases, in
\* the order of the code. The fields are the cache (mem.cache and its qcache),
\* mem.header, mem.sync, mem.cfg.MinTxFeeRate and mem.api.
Lock == [k |-> "Lock", f |-> "proxyMtx"]
Unlock == [k |-> "Unlock", f |-> "proxyMtx"]
RLock == [k |-> "RLock", f |-> "proxyMtx"]
RUnlock == [k |-> "RUnlock", f |-> "proxyMtx"]
Read(f) == [k |-> "read", f |-> f]
Write(f) == [k |-> "write", f |-> f]

getAPISteps == <<RLock, Read("api"), RUnlock>>
getSyncSteps == <<RLock, Read("sync"), RUnlock>>
setSyncSteps == <<Lock, Write("sync"), Unlock>>
SizeSteps == <<RLock, Read("cache"), RUnlock>>
SetMinFeeSteps == <<Lock, Write("MinTxFeeRate"), Unlock>>
\* mem.cache.SetQueueCache(qcache), and nothing else
SetQueueCacheSteps == <<Write("cache")>>
\* filterTxList reads mem.header before and after the walk over the cache
getTxListSteps == <<Lock, Read("header"), Read("cache"), Read("header"), Unlock>>
RemoveTxsSteps == <<Lock, Write("cache"), Unlock>>
PushTxSteps == <<Lock, Write("cache"), Unlock>>
setHeaderSteps == <<Lock, Write("header"), Unlock>>
GetHeaderSteps == <<RLock, Read("header"), RUnlock>>
GetAccTxsSteps == <<Lock, Read("cache"), Unlock>>
GetTotalCacheBytesSteps == <<Lock, Read("cache"), Unlock>>
removeExpiredSteps == <<Lock, Read("header"), Write("cache"), Unlock>>
RemoveTxsOfBlockSteps == <<Lock, Write("cache"), Unlock>>
HeightSteps == <<Lock, Read("header"), Unlock>>
\* mem.cache.qcache (nil test, GetProperFee), then mem.cfg.MinTxFeeRate
getCacheFeeRateSteps == <<Read("cache"), Read("MinTxFeeRate")>>

\* getLevelFeeRate that calls Height() before GetTotalCacheBytes has unlocked.
getLevelFeeRateSteps_HeightUnderLock ==
    <<Lock, Read("cache")>> \o HeightSteps \o <<Unlock>> \o SizeSteps

\* GetTotalCacheBytes(), Height(), Size(), one after the other
getLevelFeeRateSteps == GetTotalCacheBytesSteps \o HeightSteps \o SizeSteps

\* With cfg.IsLevelFee: getCacheFeeRate(), then mem.cfg.MinTxFeeRate is read
\* for the call of getLevelFeeRate.
GetProperFeeRateSteps ==
    getCacheFeeRateSteps \o <<Read("MinTxFeeRate")>> \o getLevelFeeRateSteps

\* delBlock, one candidate: tx.Check with mem.GetHeader() and
\* mem.cfg.MinTxFeeRate, then mem.PushTx(tx).
delBlockSteps == GetHeaderSteps \o <<Read("MinTxFeeRate")>> \o PushTxSteps

\* push2Mempool, one transaction: mem.getAPI().SendTx(tx), and mem.Height()
\* for the log when it failed.
push2MempoolSteps == getAPISteps \o HeightSteps

LockOps == {"getSync", "setSync", "Size", "SetMinFee", "SetQueueCache", "getTxList",
            "RemoveTxs", "PushTx", "setHeader", "GetAccTxs", "removeExpired",
            "RemoveTxsOfBlock", "GetProperFeeRate", "delBlock", "Height",
            "push2Mempool"}

StepsOf(op) ==
    CASE op = "getSync" -> getSyncSteps
      [] op = "setSync" -> setSyncSteps
      [] op = "Size" -> SizeSteps
      [] op = "SetMinFee" -> SetMinFeeSteps
      [] op = "SetQueueCache" -> SetQueueCacheSteps
      [] op = "getTxList" -> getTxListSteps
      [] op = "RemoveTxs" -> RemoveTxsSteps
      [] op = "PushTx" -> PushTxSteps
      [] op = "setHeader" -> setHeaderSteps
      [] op = "GetAccTxs" -> GetAccTxsSteps
      [] op = "removeExpired" -> removeExpiredSteps
      [] op = "RemoveTxsOfBlock" -> RemoveTxsOfBlockSteps
      [] op = "GetProperFeeRate" -> GetProperFeeRateSteps
      [] op = "delBlock" -> delBlockSteps
      [] op = "Height" -> HeightSteps
      [] op = "push2Mempool" -> push2MempoolSteps
      [] OTHER -> <<>>

\* The threads that run operations at the same time.
LockThreads == {"t1", "t2"}

\* The statement thread t is at; none when it runs no operation.
NextStep(t) ==
    IF ops[t].pc \in 1..Len(StepsOf(ops[t].op))
      THEN StepsOf(ops[t].op)[ops[t].pc]
      ELSE [k |-> "none", f |-> "none"]

\* How thread t holds mem.proxyMtx: by its last Lock or RLock that no Unlock
\* or RUnlock of its own has followed.
Holds(t) ==
    LET steps == StepsOf(ops[t].op)
        L == {j \in 1..(ops[t].pc - 1) :
                steps[j].k \in {"Lock", "Unlock", "RLock", "RUnlock"}}
    IN IF L = {} THEN "none"
       ELSE LET m == CHOOSE j \in L : \A i \in L : i <= j
            IN CASE steps[m].k = "Lock" -> "W"
                 [] steps[m].k = "RLock" -> "R"
                 [] OTHER -> "none"

\* A sync.RWMutex: Lock() waits until nobody holds it, RLock() until no writer
\* does.
CanStep(t) ==
    CASE NextStep(t).k = "Lock" -> \A u \in Threads : Holds(u) = "none"
      [] NextStep(t).k = "RLock" -> \A u \in Threads : Holds(u) # "W"
      [] NextStep(t).k = "none" -> FALSE
      [] OTHER -> TRUE

\* Thread t enters operation op.
OpCall(t, op) ==
    /\ ops[t] = IdleOp
    /\ ops' = [ops EXCEPT ![t] = [op |-> op, pc |-> 1]]
    /\ UNCHANGED <<cacheVars, minFee, mtx, call, del, reply, seqIn, seqCur, seqOut,
                   round, feeCalls, waitPc>>
    /\ UNCHANGED lifeVars

\* Thread t executes its next statement; after the last one it has returned.
OpStep(t) ==
    /\ CanStep(t)
    /\ ops' = [ops EXCEPT ![t] = IF ops[t].pc = Len(StepsOf(ops[t].op))
                                   THEN IdleOp
                                   ELSE [@ EXCEPT !.pc = @ + 1]]
    /\ mtx' = CASE NextStep(t).k = "Lock" -> t
                [] NextStep(t).k = "Unlock" -> NoThread
                [] OTHER -> mtx
    /\ UNCHANGED <<cacheVars, minFee, call, del, reply, seqIn, seqCur, seqOut,
                   round, feeCalls, waitPc>>
    /\ UNCHANGED lifeVars

NextLock ==
    \/ \E t \in LockThreads, op \in LockOps : OpCall(t, op)
    \/ \E t \in LockThreads : OpStep(t)

\* sync.Mutex and sync.RWMutex hand the lock to a goroutine that has waited
\* for it, so a thread that can step again and again does step.
FairLock == \A t \in LockThreads : SF_vars(OpStep(t))

SpecLock == InitSpecPool /\ [][NextLock]_vars /\ FairLock

\* -------------------------------------------------------------- SpecShutdown
\* The goroutines and one Close(), scheduled fairly: a goroutine that can take
\* a step takes one; the select of pushDelayTxRoutine, which chooses at random
\* among its ready cases, does not pass over the closed done channel forever.
\* Requests to the collaborators are answered or fail (PollHeaderFetch,
\* CheckSyncPoll and DelayPush have an outcome for each).
NextShutdown ==
    \/ SetQueueClient
    \/ Close("c1")
    \/ pollLastHeader
    \/ checkSync
    \/ Tick
    \/ removeBlockedTxs
    \/ eventProcessExit
    \/ \E batch \in DelayBatches : FeedDelay(batch)
    \/ pushDelayTxRoutine

FairShutdown ==
    /\ WF_vars(pollLastHeader)
    /\ WF_vars(checkSync)
    /\ WF_vars(removeBlockedTxs)
    /\ WF_vars(eventProcessExit)
    /\ WF_vars(DelayPush)
    /\ SF_vars(DelayDone)

SpecShutdown == InitSpecClose /\ [][NextShutdown]_vars /\ FairShutdown

\* ----------------------------------------------------------------- SpecPrune
\* The transactions pushed while the pruner runs: admitted first at heights
\* 0, 1 and 2.
PruneHashes == {"h1", "h2", "h4"}

\* The pruner over a pool that fills while the header is fetched, and Close()
\* up to its wait for the wait group.
NextPrune ==
    \/ SetQueueClient
    \/ pollLastHeader
    \/ \E h \in PruneHashes : PushTx(h)
    \/ Tick
    \/ removeBlockedTxs
    \/ CloseCall("c1")
    \/ CloseCheck("c1")
    \/ CloseStore("c1")
    \/ CloseDone("c1")
    \/ CloseClient("c1")
    \/ CloseTickerStop("c1")

SpecPrune == InitSpecClose /\ [][NextPrune]_vars

\* ----------------------------------------------------------------- SpecDelay
\* The batches the delayed-tx feed delivers to the resubmitter followed here.
RetryBatches == {<<"d1", "d2">>, <<"d1", "d2", "d3">>}

\* pushDelayTxRoutine with its feed, and Close() up to its wait for the wait
\* group, which this routine is not part of.
NextDelay ==
    \/ SetQueueClient
    \/ \E batch \in RetryBatches : FeedDelay(batch)
    \/ pushDelayTxRoutine
    \/ CloseCall("c1")
    \/ CloseCheck("c1")
    \/ CloseStore("c1")
    \/ CloseDone("c1")
    \/ CloseClient("c1")
    \/ CloseTickerStop("c1")

SpecDelay == InitSpecClose /\ [][NextDelay]_vars

\* ------------------------------------------------------------------- Wait
\* Wait that returns on the first signal.
Wait_OneSignal(w) ==
    /\ ~panicked
    /\ waitPc[w] = "idle"
    /\ poolHeader > 0
    /\ poolHeader' = poolHeader - 1
    /\ waitPc' = [waitPc EXCEPT ![w] = "returned"]
    /\ UNCHANGED <<started, forceAccept, isclose, doneCloses, panicked, clientClosed,
                   tickerStopped, tickBuf, wg, closePc, hdrPc, syncPc, prunePc, evtPc,
                   delayPc, header, sync, p2pNotified, delayChan, sendList,
                   retryList, delayFeeds, sendErr, passLog>>
    /\ UNCHANGED <<cacheVars, minFee, mtx, call, del, reply, seqIn, seqCur, seqOut,
                   round, feeCalls, ops>>

\* Wait(): <-mem.poolHeader, twice; waitPc[w] tells how many it has received.
Wait(w) ==
    /\ ~panicked
    /\ waitPc[w] \in {"idle", "second"}
    /\ poolHeader > 0
    /\ poolHeader' = poolHeader - 1
    /\ waitPc' = [waitPc EXCEPT ![w] = IF @ = "idle" THEN "second" ELSE "returned"]
    /\ UNCHANGED <<started, forceAccept, isclose, doneCloses, panicked, clientClosed,
                   tickerStopped, tickBuf, wg, closePc, hdrPc, syncPc, prunePc, evtPc,
                   delayPc, header, sync, p2pNotified, delayChan, sendList,
                   retryList, delayFeeds, sendErr, passLog>>
    /\ UNCHANGED <<cacheVars, minFee, mtx, call, del, reply, seqIn, seqCur, seqOut,
                   round, feeCalls, ops>>

\* The pollers, one Close() and one Wait(): the pruner, the event loop and the
\* resubmitter only leave on the shutdown signal.
NextReady ==
    \/ SetQueueClient
    \/ Close("c1")
    \/ pollLastHeader
    \/ checkSync
    \/ RemoveBlockedTxsDone
    \/ RemoveBlockedTxsExit
    \/ eventProcessExit
    \/ DelayDone
    \/ Wait("w1")

SpecReady == InitSpecClose /\ [][NextReady]_vars

\* The same with two callers of Wait().
NextWait ==
    \/ SetQueueClient
    \/ Close("c1")
    \/ pollLastHeader
    \/ checkSync
    \/ RemoveBlockedTxsDone
    \/ RemoveBlockedTxsExit
    \/ eventProcessExit
    \/ DelayDone
    \/ \E w \in Waiters : Wait(w)

SpecWait == InitSpecClose /\ [][NextWait]_vars

\* ---------------------------------------------- the Nonce Sequencer by itself
\* The transactions sortEthSignTyTx is called with: of sender A, n5..n8 and h4
\* match (nonces 5..8 and 4) and h3 does not; of sender B, h5 and h6 match
\* (nonces 0 and 1); m0 does not match.
SeqTxs == {"n5", "n6", "n7", "n8", "h4", "h5", "h6", "h3", "m0"}

\* The lists of distinct transactions of at most MaxSeqLen entries.
SeqInputs ==
    UNION {{q \in [1..n -> SeqTxs] : \A i, j \in 1..n : q[i] = q[j] => i = j} :
             n \in 0..MaxSeqLen}

\* What getCurrentNonce can answer: a nonce, or 0 when the call fails.
OracleNonces == {0, 5}

InitSpecSeq ==
    /\ InitLife
    /\ forceAccept = FALSE
    /\ InitPool
    /\ round = IdleRound
    /\ feeCalls = NoFee
    /\ waitPc = [w \in Waiters |-> "idle"]
    /\ ops = [t \in Threads |-> IdleOp]
    /\ seqIn \in SeqInputs
    /\ seqCur \in {f \in [Senders -> OracleNonces] : f["M"] = 0}
    /\ seqOut = <<>>

\* One call of sortEthSignTyTx(seqIn): the range over the map of senders visits
\* them in any order.
SortCall ==
    /\ Len(seqOut) < MaxSeqCalls
    /\ \E order \in Orders(EthSenders(seqIn)) :
          seqOut' = Append(seqOut, sortEthSignTyTx(seqIn, seqCur, order))
    /\ UNCHANGED <<seqIn, seqCur, round, feeCalls, waitPc, ops>>
    /\ UNCHANGED <<cacheVars, minFee, mtx, call, del, reply>>
    /\ UNCHANGED lifeVars

NextSeq == SortCall

SpecSeq == InitSpecSeq /\ [][NextSeq]_vars

\* ------------------------------------------------------- a followed caller
\* One caller is followed through a sequence of calls nothing else interleaves
\* with: RemoveTxs twice with the same list ("remove"), a block's transactions
\* pushed one by one and the block then committed ("roundtrip"), a block
\* committed and then rolled back ("rollback"). round.snaps holds the cache
\* before the first call and after each completed call, round.victims the
\* items the caller's pushes evicted. Before the caller starts, pushes and
\* header changes bring the pool to the state it starts from.
RoundBlocks == {<<"m1", "h1", "h6">>, <<"h5", "h6", "h3">>, <<"h2", "m0", "h4">>,
                <<"h2", "h5", "h6">>}
PrepareHashes == {"h1", "h2", "h3", "h4", "h5", "h6", "h7"}

PreparePush == round.pc = "idle" /\ \E h \in PrepareHashes : PushTx(h)

PrepareHeader == round.pc = "idle" /\ \E h \in PolledHeights : setHeader(h)

RoundStart(kind, arg) ==
    /\ round.pc = "idle"
    /\ del.pc = "idle"
    /\ round' = [pc |-> "run", kind |-> kind, blk |-> arg, i |-> 1,
                 snaps |-> <<cache>>, victims |-> {}]
    /\ UNCHANGED <<cacheVars, minFee, mtx, call, del, reply, header, lifeCore>>

\* The caller's two RemoveTxs(hashList) calls.
RoundRemoveTxs ==
    /\ round.pc = "run" /\ round.kind = "remove"
    /\ RemoveTxsOp(round.blk)
    /\ round' = [round EXCEPT !.i = @ + 1, !.snaps = Append(@, cache'),
                              !.pc = IF round.i = 2 THEN "done" ELSE "run"]

\* The caller's PushTx of the block's next transaction.
RoundPush ==
    /\ round.pc = "run" /\ round.kind = "roundtrip"
    /\ round.i <= Len(round.blk)
    /\ PushTxOp(round.blk[round.i])
    /\ round' = [round EXCEPT !.i = @ + 1, !.snaps = Append(@, cache'),
                              !.victims = @ \cup ({reply'.victim} \ {NoHash})]

\* The caller's RemoveTxsOfBlock(block).
RoundCommit ==
    /\ round.pc = "run"
    /\ \/ round.kind = "roundtrip" /\ round.i = Len(round.blk) + 1
       \/ round.kind = "rollback" /\ round.i = 1
    /\ RemoveTxsOfBlockOp(round.blk)
    /\ round' = [round EXCEPT !.i = @ + 1, !.snaps = Append(@, cache'),
                              !.pc = IF round.kind = "roundtrip" THEN "done" ELSE "run"]

\* The caller's delBlock(block); delBlockLoop and delBlockPush carry it out.
RoundRollback ==
    /\ round.pc = "run" /\ round.kind = "rollback" /\ round.i = 2
    /\ delBlockCallOp(round.blk)
    /\ round' = [round EXCEPT !.i = @ + 1]

InitSpecRound ==
    /\ InitLife
    /\ forceAccept = FALSE
    /\ InitPool
    /\ InitStudy

NextRound ==
    \/ PreparePush
    \/ PrepareHeader
    \/ \E hashes \in HashLists : RoundStart("remove", hashes)
    \/ \E blk \in RoundBlocks : RoundStart("roundtrip", blk)
    \/ \E blk \in RoundBlocks : RoundStart("rollback", blk)
    \/ RoundRemoveTxs
    \/ RoundPush
    \/ RoundCommit
    \/ RoundRollback
    \/ delBlockLoop
    \/ delBlockPush

SpecRound == InitSpecRound /\ [][NextRound]_vars


\* ------------------------------------------------------------ GetProperFeeRate
\* feeCalls holds cfg.MaxTxFeeRate (max), cfg.IsLevelFee (isLevel), the
\* MaxTxNumber of the chain configuration at the pool's height (maxTxNumber)
\* and, per call made, the request, what the cache answered and what the call
\* computed. cfg.MinTxFeeRate is minFee. The cache's queue is set
\* (SetQueueCache) whenever GetProperFeeRate is called, and the rates, sizes
\* and counts are not negative.
MaxFeeCalls == 2

\* types.MaxBlockSize
MaxBlockSize == 20000000

DefaultTxCount == 20
DefaultTxSize == 10240

\* getCacheFeeRate(): qcache.GetProperFee() answers properFee; it is rounded up
\* to the unit and capped.
getCacheFeeRate_NoCap(properFee, unitFee, maxFee) ==
    IF unitFee # 0 /\ properFee % unitFee > 0
      THEN (properFee \div unitFee + 1) * unitFee
      ELSE properFee

getCacheFeeRate(properFee, unitFee, maxFee) ==
    LET feeRate == IF unitFee # 0 /\ properFee % unitFee > 0
                     THEN (properFee \div unitFee + 1) * unitFee
                     ELSE properFee
    IN IF feeRate > maxFee THEN maxFee ELSE feeRate

\* getLevelFeeRate with the multipliers of the two upper tiers exchanged.
getLevelFeeRate_TiersSwapped(baseFeeRate, appendCount, appendSize, fill, maxTxNumber, maxFee) ==
    LET sumByte == fill.bytes + appendSize
        sumCount == fill.size + appendCount
        feeRate == IF sumByte >= MaxBlockSize \div 20 \/ sumCount >= maxTxNumber \div 2
                     THEN 10 * baseFeeRate
                   ELSE IF sumByte >= MaxBlockSize \div 100
                           \/ sumCount >= maxTxNumber \div 10
                     THEN 100 * baseFeeRate
                   ELSE baseFeeRate
    IN IF feeRate > maxFee THEN maxFee ELSE feeRate

\* getLevelFeeRate(baseFeeRate, appendCount, appendSize): fill.bytes is
\* GetTotalCacheBytes(), fill.size is Size().
getLevelFeeRate(baseFeeRate, appendCount, appendSize, fill, maxTxNumber, maxFee) ==
    LET sumByte == fill.bytes + appendSize
        sumCount == fill.size + appendCount
        feeRate == IF sumByte >= MaxBlockSize \div 20 \/ sumCount >= maxTxNumber \div 2
                     THEN 100 * baseFeeRate
                   ELSE IF sumByte >= MaxBlockSize \div 100
                           \/ sumCount >= maxTxNumber \div 10
                     THEN 10 * baseFeeRate
                   ELSE baseFeeRate
    IN IF feeRate > maxFee THEN maxFee ELSE feeRate

\* GetProperFeeRate that returns the level rate whenever tiered fees are on.
GetProperFeeRate_LevelWins(req, fill) ==
    LET r1 == IF req.isNil \/ req.TxCount = 0
                THEN [isNil |-> FALSE, TxCount |-> DefaultTxCount, TxSize |-> 0]
                ELSE req
        r2 == IF r1.TxSize = 0 THEN [r1 EXCEPT !.TxSize = DefaultTxSize] ELSE r1
        feeRate == getCacheFeeRate(fill.proper, minFee, feeCalls.max)
        levelFeeRate == getLevelFeeRate(minFee, r2.TxCount, r2.TxSize, fill,
                                        feeCalls.maxTxNumber, feeCalls.max)
    IN [TxCount |-> r2.TxCount, TxSize |-> r2.TxSize, level |-> levelFeeRate,
        rate |-> IF feeCalls.isLevel THEN levelFeeRate ELSE feeRate]

\* GetProperFeeRate(req): the request as evaluated (TxCount, TxSize), the
\* level rate and the rate returned.
GetProperFeeRate(req, fill) ==
    LET r1 == IF req.isNil \/ req.TxCount = 0
                THEN [isNil |-> FALSE, TxCount |-> DefaultTxCount, TxSize |-> 0]
                ELSE req
        r2 == IF r1.TxSize = 0 THEN [r1 EXCEPT !.TxSize = DefaultTxSize] ELSE r1
        feeRate == getCacheFeeRate(fill.proper, minFee, feeCalls.max)
        levelFeeRate == getLevelFeeRate(minFee, r2.TxCount, r2.TxSize, fill,
                                        feeCalls.maxTxNumber, feeCalls.max)
    IN [TxCount |-> r2.TxCount, TxSize |-> r2.TxSize, level |-> levelFeeRate,
        rate |-> IF feeCalls.isLevel /\ levelFeeRate > feeRate
                   THEN levelFeeRate ELSE feeRate]

\* The requests: nil, and TxCount and TxSize each unset (0) or set.
ReqProperFees ==
    {[isNil |-> TRUE, TxCount |-> 0, TxSize |-> 0]}
      \cup ([isNil : {FALSE}, TxCount : {0, 5}, TxSize : {0, 5000}]
               \ {[isNil |-> FALSE, TxCount |-> 0, TxSize |-> 0]})

\* What the cache answers: GetProperFee(), GetCacheBytes(), Size(). The
\* values fall on either side of the thresholds of getLevelFeeRate.
PoolFills == [proper : {0, 7, 40}, bytes : {0, 189760, 995000}, size : {0, 150, 790}]

\* MinTxFeeRate, MaxTxFeeRate, MaxTxNumber
FeeUnits == {0, 3, 10}
FeeCaps == {0, 25, 2000}
MaxTxNumbers == {1600}

InitSpecFee ==
    /\ InitLife
    /\ forceAccept = FALSE
    /\ txMap = EmptyCache.txMap
    /\ accTxs = EmptyCache.accTxs
    /\ qcache = EmptyCache.qcache
    /\ lastTx = EmptyCache.lastTx
    /\ shashTx = EmptyCache.shashTx
    /\ minFee \in FeeUnits
    /\ mtx = NoThread
    /\ call = [t \in Threads |-> IdleCall]
    /\ del = IdleDel
    /\ reply = NoReply
    /\ seqIn = <<>>
    /\ seqCur = [a \in Senders |-> 0]
    /\ seqOut = <<>>
    /\ round = IdleRound
    /\ waitPc = [w \in Waiters |-> "idle"]
    /\ ops = [t \in Threads |-> IdleOp]
    /\ feeCalls \in [max : FeeCaps, isLevel : BOOLEAN, maxTxNumber : MaxTxNumbers,
                     calls : {<<>>}]

\* One call of GetProperFeeRate(req) while the cache answers fill.
GetProperFeeRateCall ==
    /\ Len(feeCalls.calls) < MaxFeeCalls
    /\ \E req \in ReqProperFees, fill \in PoolFills :
          feeCalls' = [feeCalls EXCEPT !.calls =
                          Append(@, [req |-> req, fill |-> fill,
                                     out |-> GetProperFeeRate(req, fill)])]
    /\ UNCHANGED <<seqIn, seqCur, seqOut, round, waitPc, ops>>
    /\ UNCHANGED <<cacheVars, minFee, mtx, call, del, reply>>
    /\ UNCHANGED lifeVars

SpecFee == InitSpecFee /\ [][GetProperFeeRateCall]_vars


\* ===================================================================== claims
Joined(pc) == pc \in {"token", "exited"}

\* C1: under any interleaving of concurrent Close() calls the shutdown sequence
\* runs once: close(mem.done) is executed at most once and no Close() panics.
C1_CloseRunsOnce == doneCloses <= 1 /\ ~panicked

\* C2: every Close() call that has returned, the one that found the pool already
\* marked closed included, returned after the header poller, the sync poller,
\* the pruner and the event loop were through with mem.wg.Done().
C2_EveryCloseWaits ==
    \A c \in Closers :
        closePc[c] \in {"returned", "returnedEarly"} =>
            /\ Joined(hdrPc)
            /\ Joined(syncPc)
            /\ Joined(prunePc)
            /\ Joined(evtPc)

\* C3: once a Close() call that ran the shutdown sequence has returned,
\* pushDelayTxRoutine has exited.
C3_CloseJoinsResubmitter ==
    \A c \in Closers : closePc[c] = "returned" => delayPc = "exited"

\* ----------------------------------------------------------------- C4
Admissible(h) ==
    /\ ~isExpired(h, GetHeight + 1)
    /\ Fee(h) >= minFee
    /\ Fee(h) <= cfgMaxTxFeeRate

Returned(h) == {t \in Threads : call[t].pc = "returned" /\ call[t].tx = h}
InFlight(h) == {t \in Threads : call[t].pc \in {"locked", "decided"} /\ call[t].tx = h}

\* C4: no index ever holds a hash twice; and once N >= 2 concurrent PushTx calls
\* of one admissible hash have all returned, exactly one of them returned nil,
\* every other returned Duplicate, and the pool holds that hash exactly once.
C4_ConcurrentPushUnique ==
    /\ \A h \in Hashes :
          /\ Occurrences(qcache, h) <= 1
          /\ Occurrences(lastTx, h) <= 1
          /\ Occurrences(accTxs[From(h)], h) <= 1
    /\ \A h \in Hashes :
          (Cardinality(Returned(h)) >= 2 /\ InFlight(h) = {} /\ Admissible(h)) =>
             /\ Cardinality({t \in Returned(h) : call[t].err = "nil"}) = 1
             /\ \A t \in Returned(h) : call[t].err \in {"nil", "Duplicate"}
             /\ Occurrences(qcache, h) = 1
             /\ h \in DOMAIN txMap

C4_Witness ==
    /\ \A t \in Threads : call[t].pc = "returned" /\ call[t].tx = "h1"
    /\ Cardinality({t \in Threads : call[t].err = "Duplicate"}) = 2
    /\ qcache = <<"h1">>

\* ----------------------------------------------------------------- C5
ResidentOf(a) == {h \in DOMAIN txMap : From(h) = a}

\* C5: no sender ever has more than MaxTxNumPerAccount resident items, in its
\* account list or in the hash index.
C5_PerAccountCap ==
    \A a \in Senders :
        /\ Len(accTxs[a]) <= cfgMaxTxNumPerAccount
        /\ Cardinality(ResidentOf(a)) <= cfgMaxTxNumPerAccount

\* A push of one more item of a sender that holds MaxTxNumPerAccount has returned.
C5_Witness ==
    /\ reply.op = "PushTx"
    /\ From(reply.txs[1]) = "A"
    /\ reply.err \in {"AccountLimitExceeded", "nil"}
    /\ reply.err = "nil" => reply.victim # NoHash /\ From(reply.victim) = "A"
    /\ Len(accTxs["A"]) = cfgMaxTxNumPerAccount

\* ----------------------------------------------------------------- C6
\* C6: the number of resident items never exceeds PoolCacheSize.
C6_GlobalCap ==
    /\ Len(qcache) <= cfgPoolCacheSize
    /\ Cardinality(DOMAIN txMap) <= cfgPoolCacheSize

\* A push into the full pool has returned.
C6_Witness ==
    /\ reply.op = "PushTx"
    /\ reply.err = "PoolFull" \/ (reply.err = "nil" /\ reply.victim # NoHash)
    /\ Len(qcache) = cfgPoolCacheSize

\* ----------------------------------------------------------------- C7
RECURSIVE SumTxNum(_)
SumTxNum(S) ==
    IF S = {} THEN 0
    ELSE LET a == CHOOSE x \in S : TRUE
         IN TxNumOfAccount(cache, a) + SumTxNum(S \ {a})

\* C7: Size equals the sum of TxNumOfAccount over the senders, and a hash is in
\* its sender's account list exactly when it is in the hash index (and in the
\* fee queue).
C7_IndicesAgree ==
    /\ Size(cache) = SumTxNum(Senders)
    /\ \A h \in Hashes :
          /\ (h \in SeqSet(accTxs[From(h)])) <=> (h \in DOMAIN txMap)
          /\ (h \in SeqSet(qcache)) <=> (h \in DOMAIN txMap)
    /\ \A a \in Senders : \A i \in 1..Len(accTxs[a]) : From(accTxs[a][i]) = a

\* An eviction has just happened in a pool that holds items of two senders.
C7_Witness ==
    /\ reply.op = "PushTx"
    /\ reply.err = "nil"
    /\ reply.victim # NoHash
    /\ accTxs["A"] # <<>>
    /\ accTxs["B"] # <<>>

\* ----------------------------------------------------------------- C8, C9
\* The step is PushTx(h): no other operation leaves a PushTx reply.
PushStep(h) == reply'.op = "PushTx" /\ reply'.txs = <<h>>

\* h gets past the duplicate, expiry and fee-bound checks of Push.
PassesEarlier(h) == h \notin DOMAIN txMap /\ Admissible(h)

FeesOf(S) == {Fee(x) : x \in S}
IsMinFee(f, S) == f \in FeesOf(S) /\ \A g \in FeesOf(S) : f <= g

\* x is the oldest item of lowest fee in the insertion-ordered list s.
OldestLowest(x, s) ==
    \E i \in 1..Len(s) :
        /\ s[i] = x
        /\ IsMinFee(Fee(x), SeqSet(s))
        /\ \A j \in 1..(i - 1) : Fee(s[j]) # Fee(x)

\* C8: a push that gets past the duplicate, expiry and fee-bound checks while
\* its sender holds MaxTxNumPerAccount items: a fee not higher than the sender's
\* lowest is rejected with AccountLimitExceeded and nothing changes; a higher
\* fee evicts the sender's lowest-fee item, the oldest of equals, and is
\* admitted. With cap 2 and fees 10 (h1) and 20 (h2) resident, h3 (fee 5) is
\* rejected and h4 (fee 30) evicts h1, leaving h2 and h4.
C8_AccountLimitRule ==
    [][\A h \in Hashes :
         (PushStep(h) /\ PassesEarlier(h)
            /\ Len(accTxs[From(h)]) = cfgMaxTxNumPerAccount) =>
           /\ IF \E f \in FeesOf(ResidentOf(From(h))) :
                    IsMinFee(f, ResidentOf(From(h))) /\ Fee(h) <= f
                THEN /\ reply'.err = "AccountLimitExceeded"
                     /\ UNCHANGED cacheVars
                ELSE /\ reply'.err = "nil"
                     /\ OldestLowest(reply'.victim, accTxs[From(h)])
                     /\ DOMAIN txMap' = (DOMAIN txMap \ {reply'.victim}) \cup {h}
                     /\ accTxs'[From(h)] =
                          Append(SeqWithout(accTxs[From(h)], reply'.victim), h)
           /\ (cfgMaxTxNumPerAccount = 2 /\ accTxs["A"] = <<"h1", "h2">>) =>
                /\ h = "h3" => reply'.err = "AccountLimitExceeded"
                /\ h = "h4" => accTxs'["A"] = <<"h2", "h4">>
      ]_vars

\* tx4 (fee 30) has evicted tx1 (fee 10): tx2 and tx4 are resident.
C8_Witness ==
    /\ cfgMaxTxNumPerAccount = 2
    /\ reply.op = "PushTx"
    /\ reply.txs = <<"h4">>
    /\ reply.err = "nil"
    /\ reply.victim = "h1"
    /\ accTxs["A"] = <<"h2", "h4">>

\* C9: a push that gets past the earlier checks, whose sender is below its cap,
\* into a pool holding PoolCacheSize items: if no resident fee is lower than the
\* incoming one it is rejected with PoolFull and nothing changes; otherwise the
\* lowest-fee resident item over all senders is evicted and it is admitted.
C9_GlobalCapRule ==
    [][\A h \in Hashes :
         (PushStep(h) /\ PassesEarlier(h)
            /\ Len(accTxs[From(h)]) < cfgMaxTxNumPerAccount
            /\ Len(qcache) = cfgPoolCacheSize) =>
           IF \A x \in DOMAIN txMap : Fee(h) <= Fee(x)
             THEN /\ reply'.err = "PoolFull"
                  /\ UNCHANGED cacheVars
             ELSE /\ reply'.err = "nil"
                  /\ reply'.victim \in DOMAIN txMap
                  /\ IsMinFee(Fee(reply'.victim), DOMAIN txMap)
                  /\ DOMAIN txMap' = (DOMAIN txMap \ {reply'.victim}) \cup {h}
                  /\ Len(qcache') = cfgPoolCacheSize
      ]_vars

\* A push has evicted an item of another sender from the full pool.
C9_Witness ==
    /\ reply.op = "PushTx"
    /\ reply.err = "nil"
    /\ reply.victim # NoHash
    /\ From(reply.victim) # From(reply.txs[1])
    /\ Len(qcache) = cfgPoolCacheSize

\* ----------------------------------------------------------------- C10
QueryOps == {"getTxList", "getTxListByHash", "GetAccTxs", "GetLatestTx"}

NoExpiredIn(txs) ==
    \A i \in 1..Len(txs) : txs[i] # NoHash => ~isExpired(txs[i], GetHeight + 1)

\* C10 as stated: no query returns an item whose expiry window has passed at the
\* next block's height.
C10_NoQueryReturnsExpired == reply.op \in QueryOps => NoExpiredIn(reply.txs)

\* C10 as amended: getTxList returns no item whose expiry window has passed at
\* the next block's height, swept or not.
C10_GetTxListSkipsExpired == reply.op = "getTxList" => NoExpiredIn(reply.txs)

\* getTxList has answered while an expired item was still resident.
C10_Witness ==
    /\ reply.op = "getTxList"
    /\ reply.txs # <<>>
    /\ \E h \in DOMAIN txMap : isExpired(h, GetHeight + 1)

\* ----------------------------------------------------------------- C11
\* The resident items that are neither in the dedup set dup nor expired at the
\* next block's height.
Available(dup) ==
    {h \in DOMAIN txMap : h \notin dup /\ ~isExpired(h, GetHeight + 1)}

MinOf(a, b) == IF a <= b THEN a ELSE b

\* C11: getTxList with count = K > 0 returns exactly min(K, n) transactions, n
\* being the number of resident items neither in the dedup set nor expired, and
\* all n with count = 0; also when the Nonce Sequencer is active.
C11_ExactCount ==
    reply.op = "getTxList" =>
        Len(reply.txs) = IF reply.count > 0
                           THEN MinOf(reply.count, Cardinality(Available(reply.dup)))
                           ELSE Cardinality(Available(reply.dup))

\* ----------------------------------------------------------------- C12
\* C12: no transaction getTxList returns is in the caller's dedup set, none is
\* expired at the header's height + 1, and each is resident in the pool.
C12_ReturnedAreEligible ==
    reply.op = "getTxList" =>
        \A i \in 1..Len(reply.txs) : reply.txs[i] \in Available(reply.dup)

\* getTxList has returned something while the pool held an item of the dedup
\* set and an expired item.
C12_Witness ==
    /\ reply.op = "getTxList"
    /\ reply.txs # <<>>
    /\ reply.dup \cap DOMAIN txMap # {}
    /\ \E h \in DOMAIN txMap : h \notin reply.dup /\ isExpired(h, GetHeight + 1)

\* ----------------------------------------------------------------- C16
\* The resident items getTxList left out of its result because the Nonce
\* Sequencer withheld them.
Withheld ==
    {h \in Available(reply.dup) : IsEthSign(h) /\ h \notin SeqSet(reply.txs)}

\* C16: a getTxList call leaves every index of the pool as it was: what the
\* Nonce Sequencer withholds and what is skipped as expired or as member of the
\* dedup set stays resident.
C16_GetTxListKeepsPool ==
    [][reply'.op = "getTxList" => UNCHANGED cacheVars]_vars

\* An unbounded getTxList has returned while the pool held an expired item, an
\* item of the dedup set and an item the sequencer withheld.
C16_Witness ==
    /\ reply.op = "getTxList"
    /\ reply.count = 0
    /\ IsFork(GetHeight)
    /\ Withheld # {}
    /\ reply.dup \cap DOMAIN txMap # {}
    /\ \E h \in DOMAIN txMap : isExpired(h, GetHeight + 1)

\* ----------------------------------------------------------------- C13
\* C13: two calls with the same filter, with no change of the pool, the header
\* or the oracle between them, return the same transactions in the same order;
\* after the walk, which is the same for both, that is: two calls of
\* sortEthSignTyTx with the same txs and the same oracle answers return the
\* same list, several matching senders included.
C13_SameListTwice ==
    Len(seqOut) >= 2 => seqOut[1] = seqOut[2]

\* ----------------------------------------------------------------- C14
Matching(h) == IsEthSign(h)
NotMatching(h) == ~IsEthSign(h)

\* The matching transactions of sender a in the input with nonce n.
WithNonce(a, n) ==
    {h \in SeqSet(seqIn) : Matching(h) /\ From(h) = a /\ Nonce(h) = n}

RECURSIVE RunFrom(_, _)
\* The sender's transactions with nonces e, e+1, ... as long as each is present.
RunFrom(a, e) ==
    IF WithNonce(a, e) = {} THEN <<>>
    ELSE <<CHOOSE h \in WithNonce(a, e) : TRUE>> \o RunFrom(a, e + 1)

\* The matching transactions of sender a in the list s, in the order of s.
OfSender(s, a) ==
    LET Mine(h) == Matching(h) /\ From(h) = a IN SelectSeq(s, Mine)

\* C14: for each sender with matching transactions, the sequencer emits exactly
\* the sender's transactions with nonces e, e+1, ..., e+k, e being the oracle's
\* answer and k maximal such that all these nonces are in the input, in
\* ascending nonce order, and nothing else of that sender.
C14_EmitsRunFromExpected ==
    \A c \in 1..Len(seqOut) : \A a \in Senders :
        OfSender(seqIn, a) # <<>> => OfSender(seqOut[c], a) = RunFrom(a, seqCur[a])

\* ----------------------------------------------------------------- C15
\* C15: the transactions of the input that do not match are in the output
\* exactly once each and in the order they have in the input, with or without
\* matching transactions in the input.
C15_OthersPassThrough ==
    \A c \in 1..Len(seqOut) :
        SelectSeq(seqOut[c], NotMatching) = SelectSeq(seqIn, NotMatching)

\* Two transactions that do not match came behind an emitted matching one and
\* are ahead of it in the output, in their order.
C15_Witness ==
    /\ seqIn = <<"h5", "h3", "m0">>
    /\ seqCur["B"] = 0
    /\ Len(seqOut) >= 1
    /\ seqOut[1] = <<"h3", "m0", "h5">>

\* ------------------------------------------------------ removal and rollback
\* The items of a cache, per index that holds them in an order.
Items(c) == [txMap |-> c.txMap, accTxs |-> c.accTxs, qcache |-> c.qcache]

\* The items of cache c with those whose hash is in S taken out and every
\* other item where it was.
Dropping(c, S) ==
    [txMap |-> [x \in DOMAIN c.txMap \ S |-> c.txMap[x]],
     accTxs |-> [a \in Senders |-> SelectSeq(c.accTxs[a], LAMBDA x : x \notin S)],
     qcache |-> SelectSeq(c.qcache, LAMBDA x : x \notin S)]

\* C17: RemoveTxs with list L returns no error and leaves no resident item
\* whose hash is in L, every other item unchanged, whether or not the hashes of
\* L are resident or repeat; the same call a second time changes nothing.
C17_RemoveTxsIdempotent ==
    round.kind = "remove" /\ round.i >= 2 =>
        /\ reply.op = "RemoveTxs" /\ reply.err = "nil"
        /\ Items(round.snaps[2]) = Dropping(round.snaps[1], SeqSet(round.blk))
        /\ SeqSet(round.blk) \cap DOMAIN round.snaps[2].txMap = {}
        /\ round.i = 3 => round.snaps[3] = round.snaps[2]

\* Both calls were made with a list that repeats a resident hash, another item
\* being resident too.
C17_Witness ==
    /\ round.kind = "remove" /\ round.pc = "done"
    /\ round.blk = <<"h2", "h2">>
    /\ "h2" \in DOMAIN round.snaps[1].txMap
    /\ Size(round.snaps[1]) >= 2
    /\ Size(cache) = Size(round.snaps[1]) - 1

\* The snapshot taken just before the followed caller's RemoveTxsOfBlock.
CommitAt == IF round.kind = "roundtrip" THEN Len(round.blk) + 1 ELSE 1

\* RemoveTxsOfBlock is the followed caller's last completed call.
JustCommitted ==
    \/ round.kind = "roundtrip" /\ round.pc = "done"
    \/ round.kind = "rollback" /\ round.i = 2

\* C18: after RemoveTxsOfBlock(block) no transaction of the block is resident,
\* every other resident item is unchanged, and the call returned true whether
\* or not a transaction of the block was resident.
C18_CommitRemovesBlock ==
    JustCommitted =>
        /\ reply.op = "RemoveTxsOfBlock" /\ reply.ok
        /\ SeqSet(round.blk) \cap DOMAIN txMap = {}
        /\ Items(cache) = Dropping(round.snaps[CommitAt], SeqSet(round.blk))

\* A block was committed while one of its transactions and another item were
\* resident.
C18_Witness ==
    /\ round.kind = "rollback" /\ round.i = 2
    /\ SeqSet(round.blk) \cap DOMAIN round.snaps[1].txMap # {}
    /\ DOMAIN txMap # {}
    /\ reply.ok

\* The followed caller has pushed the block's transactions and committed it.
RoundTripDone == round.kind = "roundtrip" /\ round.pc = "done"

\* C19 as stated: from any pool state, pushing each transaction of a block and
\* then RemoveTxsOfBlock on it restores the pool size it had before the pushes.
C19_SizeRestored == RoundTripDone => Size(cache) = Size(round.snaps[1])

\* C19: pushing each transaction of a block and then RemoveTxsOfBlock on it
\* never leaves the pool larger than before the pushes, and restores the size
\* exactly when no transaction of the block was resident before and no push
\* evicted an item that was.
C19_SizeRestoredWhenFresh ==
    RoundTripDone =>
        LET before == DOMAIN round.snaps[1].txMap
        IN /\ Size(cache) <= Size(round.snaps[1])
           /\ Size(cache) = Size(round.snaps[1])
                <=> /\ SeqSet(round.blk) \cap before = {}
                    /\ round.victims \cap before = {}

\* The pushes grew a non-empty pool and the commit brought it back to its size.
C19_Witness ==
    /\ RoundTripDone
    /\ Size(round.snaps[1]) >= 1
    /\ Size(round.snaps[Len(round.blk) + 1]) > Size(round.snaps[1])
    /\ Size(cache) = Size(round.snaps[1])

\* The followed caller's delBlock has returned.
RollbackDone == round.kind = "rollback" /\ round.i = 3 /\ del.pc = "idle"

\* Passes tx.Check and is not expired for the next block.
Valid(h) == TxCheck(h, minFee) /\ ~isExpired(h, GetHeight + 1)

MinerAtZero(blk) == Len(blk) >= 1 /\ IsMiner(blk[1])

\* C20 as stated: after delBlock on a block removed by commit pruning, every
\* transaction of the block that is not the miner transaction at position 0,
\* passes the check and is not expired is resident; the miner transaction at
\* position 0 is not.
C20_EveryValidReadmitted ==
    RollbackDone =>
        /\ \A k \in 1..Len(round.blk) :
              ~(k = 1 /\ MinerAtZero(round.blk)) /\ Valid(round.blk[k])
                  => round.blk[k] \in DOMAIN txMap
        /\ MinerAtZero(round.blk) => round.blk[1] \notin DOMAIN txMap

RECURSIVE Heads(_, _)
\* The positions from k on at which delBlock takes a transaction to push: not
\* the miner transaction at position 0, and of a transaction group only its
\* first member.
Heads(blk, k) ==
    IF k > Len(blk) THEN {}
    ELSE IF k = 1 /\ MinerAtZero(blk) THEN Heads(blk, 2)
    ELSE {k} \cup Heads(blk, IF GroupCount(blk[k]) > 1
                                  /\ k - 1 + GroupCount(blk[k]) <= Len(blk)
                               THEN k + GroupCount(blk[k]) ELSE k + 1)

Candidates(blk) == {blk[k] : k \in {j \in Heads(blk, 1) : Valid(blk[j])}}

\* The pool and every account have room for all the candidates of blk on top
\* of what cache c holds.
RoomFor(c, blk) ==
    /\ Size(c) + Cardinality(Candidates(blk)) <= cacheSize
    /\ \A a \in Senders :
          TxNumOfAccount(c, a) + Cardinality({h \in Candidates(blk) : From(h) = a})
              <= cacheAccLimit

\* C20: after delBlock on a block removed by commit pruning, the miner
\* transaction at position 0 is not resident; nothing is re-admitted but the
\* transactions delBlock takes (a group under its first member) that pass the
\* check and are not expired; and each of these is resident when the pool and
\* the accounts have room for all of them.
C20_ReadmitsWhatFits ==
    RollbackDone =>
        /\ MinerAtZero(round.blk) => round.blk[1] \notin DOMAIN txMap
        /\ DOMAIN txMap \subseteq DOMAIN round.snaps[2].txMap \cup Candidates(round.blk)
        /\ RoomFor(round.snaps[2], round.blk) => Candidates(round.blk) \subseteq DOMAIN txMap

\* A block headed by a miner transaction with a valid fee was rolled back into
\* a non-empty pool and its two other transactions are resident again.
C20_Witness ==
    /\ RollbackDone
    /\ round.blk = <<"m1", "h1", "h6">>
    /\ Size(round.snaps[2]) >= 1
    /\ {"h1", "h6"} \subseteq DOMAIN txMap

\* ------------------------------------------------------------ fee recommendation
FeeCallIds == 1..Len(feeCalls.calls)

\* C21: with MaxTxFeeRate >= 0, whatever the request, the pool and the
\* configuration, tiered fees on or off, the rate GetProperFeeRate returns is
\* at least 0 and at most MaxTxFeeRate.
C21_RateWithinBounds ==
    \A k \in FeeCallIds :
        feeCalls.calls[k].out.rate >= 0 /\ feeCalls.calls[k].out.rate <= feeCalls.max

\* The cap cut a rate down: the cache's fee, rounded, was above MaxTxFeeRate.
C21_Witness ==
    /\ feeCalls.max = 25 /\ minFee = 3
    /\ \E k \in FeeCallIds :
          feeCalls.calls[k].fill.proper = 40 /\ feeCalls.calls[k].out.rate = 25

\* Call j was made with the request of call i on a pool with at least as many
\* items and at least as many bytes.
Fuller(i, j) ==
    /\ feeCalls.calls[j].req = feeCalls.calls[i].req
    /\ feeCalls.calls[j].fill.size >= feeCalls.calls[i].fill.size
    /\ feeCalls.calls[j].fill.bytes >= feeCalls.calls[i].fill.bytes

CountOf(req) == IF req.isNil \/ req.TxCount = 0 THEN 20 ELSE req.TxCount
SizeOf(req) == IF req.isNil \/ req.TxSize = 0 THEN 10240 ELSE req.TxSize

RoundUp(x, unit) ==
    IF unit = 0 THEN x
    ELSE CHOOSE m \in x..(x + unit) : m % unit = 0 /\ \A n \in x..(m - 1) : n % unit # 0

\* The level rate before the cap, for the count and size the call evaluated.
Tier(c) ==
    LET bytes == c.fill.bytes + c.out.TxSize
        count == c.fill.size + c.out.TxCount
    IN IF bytes * 20 >= MaxBlockSize \/ count * 2 >= feeCalls.maxTxNumber THEN 100
       ELSE IF bytes * 100 >= MaxBlockSize \/ count * 10 >= feeCalls.maxTxNumber THEN 10
       ELSE 1

MaxOf(a, b) == IF a >= b THEN a ELSE b

\* C26: the rate returned is the greater of the cache's fee and, with
\* IsLevelFee set, the level rate, rounded up to a multiple of MinTxFeeRate and
\* then cut to MaxTxFeeRate; with IsLevelFee unset the cache's fee alone,
\* rounded and cut the same way.
C26_ReferenceFormula ==
    \A k \in FeeCallIds :
        LET c == feeCalls.calls[k]
            greater == IF feeCalls.isLevel
                         THEN MaxOf(c.fill.proper, Tier(c) * minFee)
                         ELSE c.fill.proper
        IN c.out.rate = MinOf(RoundUp(greater, minFee), feeCalls.max)

\* The cache's fee won over the level rate and was rounded up to the unit.
C26_Witness ==
    /\ feeCalls.isLevel /\ minFee = 3 /\ feeCalls.max = 2000
    /\ \E k \in FeeCallIds :
          /\ feeCalls.calls[k].fill.proper = 7
          /\ Tier(feeCalls.calls[k]) = 1
          /\ feeCalls.calls[k].out.rate = 9

C28_IndependentDefaults ==
    \A k \in FeeCallIds :
        /\ feeCalls.calls[k].out.TxCount = CountOf(feeCalls.calls[k].req)
        /\ feeCalls.calls[k].out.TxSize = SizeOf(feeCalls.calls[k].req)

\* ------------------------------------------------------------------ readiness
\* The poller has left its loop: its signal is sent or about to be.
HeaderPollerLeft == hdrPc \in {"defer", "wgDone", "exited"}
SyncPollerLeft == syncPc \in {"wgDone", "token", "exited"}

C24_ForceAcceptNeverPolls == forceAccept => syncPc # "poll"

\* C25: the header poller goes back to its loop after a failed request, leaves
\* it only once a request succeeded or the pool is closed, stores a header only
\* when none is stored and then leaves, and requests nothing after a success.
C25_HeaderPolledUntilSuccess ==
    /\ [](hdrPc = "fetch" => header = NoHeader)
    /\ [](HeaderPollerLeft => header # NoHeader \/ isClose)
    /\ [][header' # header
            => header = NoHeader /\ hdrPc = "fetch" /\ hdrPc' = "defer"]_vars
    /\ [][hdrPc = "fetch" /\ hdrPc' # "fetch" /\ header' = header
            => hdrPc' = "loop"]_vars

\* The poller has stored a header and exited on a pool that is not closed.
C25_Witness ==
    /\ hdrPc = "exited"
    /\ header = MaxHeight
    /\ isclose = 0

\* C29: without ForceAccept the sync poller leaves its loop only once the
\* provider reported caught up or the pool is closed; p2p is notified at most
\* once and only together with the sync flag being set, which happens before
\* the readiness signal; a poll that failed or found the chain behind changes
\* neither.
C29_SyncPolledUntilCaughtUp ==
    /\ [](~forceAccept => p2pNotified <= 1 /\ (p2pNotified = 1 => sync))
    /\ [](~forceAccept /\ SyncPollerLeft => sync \/ isClose)
    /\ [](~forceAccept /\ sync => SyncPollerLeft)
    /\ [][~forceAccept /\ (sync' # sync \/ p2pNotified' # p2pNotified)
            => /\ syncPc = "poll" /\ syncPc' = "wgDone"
               /\ sync' /\ p2pNotified' = p2pNotified + 1]_vars
    /\ [][~forceAccept /\ syncPc = "poll" /\ syncPc' = "loop"
            => sync' = sync /\ p2pNotified' = p2pNotified]_vars

\* The poller found the chain caught up, notified p2p and sent its signal.
C29_Witness ==
    /\ ~forceAccept
    /\ syncPc = "exited"
    /\ sync /\ p2pNotified = 1
    /\ isclose = 0

\* ---------------------------------------------------------------- resubmitter
\* C30: a resubmission attempt puts the transaction into the retry buffer when
\* SendTx failed with ErrMemFull and only then; after any other outcome the
\* routine drops it.
C30_RetryIffPoolFull ==
    /\ [][delayPc = "pushing" /\ sendList # <<>> /\ sendList' = Tail(sendList)
            => IF sendErr' = "ErrMemFull"
                 THEN retryList' = Append(retryList, Head(sendList))
                 ELSE retryList' = retryList]_vars
    /\ [][Len(retryList') > Len(retryList) => sendErr' = "ErrMemFull"]_vars

\* An attempt failed with ErrMemFull and the transaction waits for the retry.
C30_Witness ==
    /\ sendErr = "ErrMemFull"
    /\ retryList = <<"d1">>
    /\ sendList = <<>>

\* The transactions of a pass whose attempt failed with ErrMemFull, in order.
RECURSIVE FullOnes(_, _)
FullOnes(list, errs) ==
    IF errs = <<>>
      THEN <<>>
      ELSE (IF Head(errs) = "ErrMemFull" THEN <<Head(list)>> ELSE <<>>)
             \o FullOnes(Tail(list), Tail(errs))

\* C31: a retry pass starts from a non-empty retry buffer, ranges over exactly
\* the transactions the buffer held and leaves the buffer empty at its start;
\* it attempts them one by one, each once; during and after the pass the buffer
\* holds exactly the attempted ones whose SendTx failed with ErrMemFull, so it
\* never holds more than the pass started with.
C31_RetryPassDrainsBuffer ==
    /\ [](passLog.from = "tick" =>
            LET n == Len(passLog.errs)
            IN  /\ passLog.list # <<>>
                /\ n <= Len(passLog.list)
                /\ sendList = SubSeq(passLog.list, n + 1, Len(passLog.list))
                /\ retryList = FullOnes(passLog.list, passLog.errs)
                /\ Len(retryList) <= Len(passLog.list))
    /\ [][passLog'.from = "tick" /\ passLog'.errs = <<>> /\ passLog' # passLog
            => /\ retryList # <<>>
               /\ passLog'.list = retryList
               /\ sendList' = retryList
               /\ retryList' = <<>>]_vars

\* A retry pass over three transactions is over: one failed with ErrMemFull
\* again and is buffered, the others are gone.
C31_Witness ==
    /\ passLog.from = "tick"
    /\ Len(passLog.list) = 3
    /\ Len(passLog.errs) = 3
    /\ delayPc = "select"
    /\ Len(retryList) = 1

\* ------------------------------------------------------------------ shutdown
\* C32: once Close() has stored the closed flag and closed the done channel,
\* the header poller, the sync poller, the pruner and the resubmitter all
\* return, whatever the header and the sync flag are.
C32_LoopsExitAfterClose ==
    (doneCloses >= 1)
        ~> (/\ hdrPc = "exited"
            /\ syncPc = "exited"
            /\ prunePc = "exited"
            /\ delayPc = "exited")

\* All four have returned; no header was ever stored and the chain never
\* answered caught up.
C32_Witness ==
    /\ doneCloses = 1
    /\ hdrPc = "exited" /\ syncPc = "exited"
    /\ prunePc = "exited" /\ delayPc = "exited"
    /\ header = NoHeader
    /\ ~sync

\* -------------------------------------------------------------------- pruner
\* removeBlockedTxs starts a sweep / completes one in this step.
SweepStarts == prunePc = "select" /\ prunePc' = "sweep"
SweepRuns == prunePc = "sweep" /\ prunePc' = "select"

\* C33 as stated: once the closed flag is set, no expiry sweep runs.
C33_NoSweepOnceClosed == [][isclose = 1 => ~SweepRuns]_vars

\* C33: every sweep takes one tick out of the ticker channel and removes exactly
\* the resident transactions that are expired at the header's height + 1 (0 + 1
\* when no header is stored); the pruner leaves its loop only when the pool is
\* closed; no tick received after the closed flag is set starts a sweep, and a
\* sweep that runs with the flag set had passed its isClose() check before.
C33_SweepPerTickUntilClosed ==
    /\ [][SweepStarts => tickBuf = 1 /\ tickBuf' = 0 /\ isclose = 0]_vars
    /\ [][SweepRuns =>
            /\ DOMAIN txMap' = {h \in DOMAIN txMap : ~isExpired(h, GetHeight + 1)}
            /\ SeqSet(qcache') = DOMAIN txMap']_vars
    /\ [][prunePc' = "sweep" => prunePc = "sweep" \/ SweepStarts]_vars
    /\ [](prunePc \in {"wgDone", "exited"} => isclose = 1)

\* The last call on the pool admitted h1; since then a sweep at the highest
\* header has removed it and kept h4, which is younger.
C33_Witness ==
    /\ prunePc = "select"
    /\ header = MaxHeight
    /\ isclose = 0
    /\ reply.op = "PushTx" /\ reply.txs = <<"h1">> /\ reply.err = "nil"
    /\ "h1" \notin DOMAIN txMap
    /\ "h4" \in DOMAIN txMap

\* ---------------------------------------------------------------------- lock
\* Threads t and u are both at an access of the same field, one of them a write.
Conflict(t, u) ==
    /\ t # u
    /\ NextStep(t).k \in {"read", "write"}
    /\ NextStep(u).k \in {"read", "write"}
    /\ NextStep(t).f = NextStep(u).f
    /\ "write" \in {NextStep(t).k, NextStep(u).k}

\* C34 as stated: a thread that is at a write of the cache, the header, the
\* sync flag or MinTxFeeRate holds the lock exclusively, one that is at a read
\* holds it at least shared, and no two threads are at conflicting accesses.
C34_StateAccessedUnderLock ==
    /\ \A t \in Threads :
          /\ NextStep(t).k = "write" => Holds(t) = "W"
          /\ NextStep(t).k = "read" => Holds(t) \in {"R", "W"}
    /\ \A t, u \in Threads : ~Conflict(t, u)

\* C40: no thread is at a Lock() or RLock() while it holds the lock, and every
\* operation a thread has entered returns, the lock released.
C40_NoSelfDeadlock ==
    /\ [](\A t \in Threads :
            NextStep(t).k \in {"Lock", "RLock"} => Holds(t) = "none")
    /\ \A t \in LockThreads : (ops[t] # IdleOp) ~> (ops[t] = IdleOp)
    /\ [](\A t \in Threads : ops[t] = IdleOp => mtx # t)

\* One thread holds the lock in getTxList while the other waits at the Lock()
\* of Height() in the middle of GetProperFeeRate.
C40_Witness ==
    /\ ops["t1"].op = "getTxList" /\ Holds("t1") = "W"
    /\ ops["t2"].op = "GetProperFeeRate" /\ NextStep("t2").k = "Lock"
    /\ ops["t2"].pc > 4

\* ------------------------------------------------------------------ delBlock
\* The pass of delBlock that starts at index at of block blk takes the group
\* when the transaction there declares one that fits, that transaction alone
\* when it does not.
PassOf(blk, at) ==
    LET tx0 == blk[at + 1]
        g == GroupCount(tx0)
    IN IF g > 1 /\ at + g <= Len(blk)
         THEN [n |-> g, tx |-> GroupTx(SubSeq(blk, at + 1, at + g))]
         ELSE [n |-> 1, tx |-> tx0]

\* The passes logged so far follow one another from index 0 without a gap or an
\* overlap and stay inside the block.
Tiled(d) ==
    \A k \in 1..Len(d.log) :
       /\ d.log[k].at = (IF k = 1 THEN 0 ELSE d.log[k - 1].at + d.log[k - 1].n)
       /\ d.log[k].n >= 1
       /\ d.log[k].at + d.log[k].n <= Len(d.blk)

\* How far delBlock has got: twice its index, plus one at the PushTx call.
Progress(d) == 2 * d.i + (IF d.pc = "push" THEN 1 ELSE 0)

\* C35 as stated: every pass validates its candidate, the one that starts at a
\* miner transaction at index 0 included.
C35_EveryPassValidates ==
    del.pc # "idle" => \A k \in 1..Len(del.log) : del.log[k].res # "miner"

\* C35: the passes of delBlock tile the block from index 0, none reads past its
\* end; a pass that starts at a transaction declaring a group that fits takes
\* the whole group as one candidate, any other pass takes one transaction; the
\* candidate is validated and, when valid, pushed once, except a miner
\* transaction at index 0, which is skipped; every step of delBlock moves it
\* forward, and it returns only with every index taken.
C35_GroupsScannedOnce ==
    /\ [](del.pc # "idle" =>
            /\ Tiled(del)
            /\ del.i <= Len(del.blk)
            /\ \A k \in 1..Len(del.log) :
                  IF del.log[k].res = "miner"
                    THEN del.log[k].at = 0 /\ del.log[k].n = 1
                         /\ IsMiner(del.blk[1])
                    ELSE /\ del.log[k].n = PassOf(del.blk, del.log[k].at).n
                         /\ del.log[k].tx = PassOf(del.blk, del.log[k].at).tx
                         /\ ~(del.log[k].at = 0 /\ IsMiner(del.blk[1]))
            /\ del.pc = "loop" =>
                  del.i = (IF del.log = <<>> THEN 0
                           ELSE del.log[Len(del.log)].at + del.log[Len(del.log)].n))
    /\ [][del.pc # "idle" /\ del' # del =>
            IF del'.pc = "idle" THEN del.pc = "loop" /\ del.i = Len(del.blk)
                                ELSE Progress(del') > Progress(del)]_vars

\* delBlock is through a block of three whose last two transactions are a
\* group: two passes, the second over the group.
C35_Witness ==
    /\ del.pc = "loop"
    /\ del.i = Len(del.blk)
    /\ Len(del.blk) = 3
    /\ Len(del.log) = 2
    /\ del.log[2].at = 1 /\ del.log[2].n = 2

\* C36: a pass whose candidate fails tx.Check or checkExpireValid, and a pass
\* whose PushTx returns an error, leave the pool as it was; a candidate
\* rejected for a full pool or a full account is not in the pool afterwards;
\* delBlock then goes on with the next index, and it returns, with no error,
\* only when every index has been taken.
C36_FailuresAreSwallowed ==
    /\ [][del.pc # "idle" /\ del'.pc # "idle" /\ Len(del'.log) > 0
            /\ (del'.log # del.log)
            /\ del'.log[Len(del'.log)].res
                  \in {"invalid", "expired", "Duplicate", "Expired", "FeeBelowMinimum",
                       "FeeAboveMaximum", "PoolFull", "AccountLimitExceeded"}
            => /\ UNCHANGED cacheVars
               /\ del'.pc = "loop"
               /\ del'.i = del'.log[Len(del'.log)].at + del'.log[Len(del'.log)].n
               /\ del'.log[Len(del'.log)].res \in {"PoolFull", "AccountLimitExceeded"}
                    => del'.log[Len(del'.log)].tx \notin DOMAIN txMap']_vars
    /\ [][del.pc # "idle" /\ del'.pc = "idle"
            => /\ del.i = Len(del.blk)
               /\ reply'.op = "delBlock" /\ reply'.err = "nil"]_vars

\* delBlock is through a block in which a candidate failed (its validation, or
\* PushTx rejected it) and a candidate after it was admitted.
C36_Witness ==
    /\ del.pc = "loop"
    /\ del.i = Len(del.blk)
    /\ \E j, k \in 1..Len(del.log) :
          /\ j < k
          /\ del.log[j].res \in {"invalid", "expired", "Duplicate",
                                 "PoolFull", "AccountLimitExceeded"}
          /\ del.log[k].res = "nil"

\* ------------------------------------------------------------ readiness tokens
\* Tokens a caller of Wait() has received.
Taken(w) == CASE waitPc[w] = "idle" -> 0
              [] waitPc[w] = "second" -> 1
              [] waitPc[w] = "returned" -> 2

\* Tokens each poller has sent: pollLastHeader sends before wg.Done(), checkSync
\* after it.
HdrSent == IF hdrPc \in {"wgDone", "exited"} THEN 1 ELSE 0
SyncSent == IF syncPc = "exited" THEN 1 ELSE 0

\* C38: the tokens in the channel and those received are exactly those of the
\* pollers that have left, one each and two at most; a poller at its send finds
\* room in the channel; when one Wait() has returned the other caller has
\* received nothing and no token is left or still to come; two callers that
\* hold one token each stay there for ever.
C38_TwoTokensOneWait ==
    /\ [](poolHeader + Taken("w1") + Taken("w2") = HdrSent + SyncSent)
    /\ []((hdrPc = "defer" \/ syncPc = "token") => poolHeader < 2)
    /\ [](\A w, u \in Waiters :
            w # u /\ waitPc[w] = "returned"
                => /\ waitPc[u] = "idle"
                   /\ poolHeader = 0
                   /\ HdrSent + SyncSent = 2)
    /\ [][(\A w \in Waiters : waitPc[w] = "second")
            => (\A w \in Waiters : waitPc'[w] = "second") /\ poolHeader' = 0]_vars

\* Both pollers have left and each of two callers of Wait() holds one token.
C38_Witness ==
    /\ hdrPc = "exited" /\ syncPc = "exited"
    /\ poolHeader = 0
    /\ \A w \in Waiters : waitPc[w] = "second"

\* ------------------------------------------------- the sequencer only withholds
\* Every entry of s occurs in t at least as often as in s.
SubMultiset(s, t) == \A x \in SeqSet(s) : Occurrences(s, x) <= Occurrences(t, x)

\* What the walk of the last getTxList collected: the sequencer's input.
Walked == WalkFilter(qcache, <<>>, reply.count, reply.dup, FALSE, GetHeight + 1)

\* C39: what getTxList returns is a sub-multiset of what its walk collected,
\* whether sortEthSignTyTx ran on it or not: with count = K > 0 it has at most
\* K entries, and no resident transaction is in it twice.
C39_SequencerOnlyWithholds ==
    reply.op = "getTxList" =>
        /\ SubMultiset(reply.txs, Walked)
        /\ reply.count > 0 => Len(reply.txs) <= reply.count
        /\ \A i, j \in 1..Len(reply.txs) : reply.txs[i] = reply.txs[j] => i = j
        /\ \A i \in 1..Len(reply.txs) : reply.txs[i] \in DOMAIN txMap

\* A bounded getTxList whose walk collected count transactions, with the
\* sequencer active: it emitted a matching transaction and withheld another.
C39_Witness ==
    /\ reply.op = "getTxList"
    /\ reply.count > 0
    /\ IsFork(GetHeight)
    /\ Len(Walked) = reply.count
    /\ \E i \in 1..Len(reply.txs) : IsEthSign(reply.txs[i])
    /\ Len(reply.txs) < Len(Walked)

====
